---- MODULE Spec2Model ----
(***************************************************************************)
(* State-machine model of xin_api.py (the xin-bot course recommendation    *)
(* API): the /chat intent router, the hybrid lexical + vector search, the  *)
(* episode reordering, the pagination and the per-session history store.   *)
(*                                                                         *)
(* Text.  SANY accepts only ASCII string literals, so a Python str is      *)
(* modelled as a sequence of characters, one string token per character:   *)
(* an ASCII character is the one-letter string itself (Chars("next 5")),   *)
(* a CJK / kana character is a romanised token of two or more letters      *)
(* (<<"shi_lose", "mian">> is the two-character text 失眠).  Len, slicing, *)
(* substring search, replace, split and strip are computed on these        *)
(* sequences exactly as the Python str methods compute them.               *)
(*                                                                         *)
(* Numbers.  Scores are kept in hundredths (10.0 is 1000, 0.5 is 50, a     *)
(* cosine similarity of 0.62 is 62), so all arithmetic is on integers.     *)
(***************************************************************************)
EXTENDS Integers, Sequences, FiniteSets, TLC

\* ------------------------------------------------------------------ text

\* The characters of an ASCII literal.
Chars(s) == <<>> \o [i \in 1..Len(s) |-> SubSeq(s, i, i)]

Min2(a, b) == IF a < b THEN a ELSE b

Max2(a, b) == IF a > b THEN a ELSE b

\* A sequence given by a rule, as the list of its values.
List(f) == <<>> \o f

\* F(v), with v computed before F is entered (the test evaluates it): a local
\* variable of the code, assigned v once and read by what follows.
With(v, F(_)) == CASE v = v -> F(v)

\* s[i:i+len(sub)] == sub
MatchAt(s, sub, i) ==
  /\ i >= 1
  /\ i + Len(sub) - 1 <= Len(s)
  /\ SubSeq(s, i, i + Len(sub) - 1) = sub

\* Python: sub in s
Contains(s, sub) == \E i \in 1..(Len(s) + 1) : MatchAt(s, sub, i)

\* Python: s.find(sub) + 1 (0 when absent)
Find(s, sub) ==
  IF Contains(s, sub)
  THEN CHOOSE i \in 1..(Len(s) + 1) :
         /\ MatchAt(s, sub, i)
         /\ \A j \in 1..(i - 1) : ~MatchAt(s, sub, j)
  ELSE 0

\* Python: s.startswith(p), s.endswith(p)
StartsWith(s, p) == MatchAt(s, p, 1)

EndsWith(s, p) == Len(p) <= Len(s) /\ MatchAt(s, p, Len(s) - Len(p) + 1)

\* Python: s.split(sub)[0] for a non-empty sub
SplitHead(s, sub) == With(Find(s, sub), LAMBDA i : IF i = 0 THEN s ELSE SubSeq(s, 1, i - 1))

\* Python: s.replace(sub, rep) for a non-empty sub (left to right, non-overlapping)
RECURSIVE Replace(_, _, _)
Replace(s, sub, rep) ==
  IF Len(sub) = 0 THEN s
  ELSE With(Find(s, sub), LAMBDA i :
         IF i = 0 THEN s
         ELSE SubSeq(s, 1, i - 1) \o rep
                \o Replace(SubSeq(s, i + Len(sub), Len(s)), sub, rep))

\* Python: s.count(sub) for a non-empty sub (non-overlapping occurrences)
RECURSIVE Count(_, _)
Count(s, sub) ==
  IF Len(sub) = 0 THEN 0
  ELSE With(Find(s, sub), LAMBDA i :
         IF i = 0 THEN 0 ELSE 1 + Count(SubSeq(s, i + Len(sub), Len(s)), sub))

\* Python: s.strip(chars): leading and trailing characters of the set removed
RECURSIVE LStripChars(_, _)
LStripChars(s, cs) ==
  IF Len(s) > 0 /\ s[1] \in cs THEN LStripChars(Tail(s), cs) ELSE s

RECURSIVE RStripChars(_, _)
RStripChars(s, cs) ==
  IF Len(s) > 0 /\ s[Len(s)] \in cs THEN RStripChars(SubSeq(s, 1, Len(s) - 1), cs) ELSE s

StripChars(s, cs) == RStripChars(LStripChars(s, cs), cs)

\* Whitespace, as str.strip() and the regex class \s see it.
Whitespace == {" "}

Strip(s) == StripChars(s, Whitespace)

\* Python: s.lower().  Only ASCII capitals change; CJK and kana have no case.
UpperToLower ==
  [c \in {"A", "B", "C", "D", "E", "F", "G", "H", "I", "J", "K", "L", "M",
          "N", "O", "P", "Q", "R", "S", "T", "U", "V", "W", "X", "Y", "Z"} |->
     CASE c = "A" -> "a" [] c = "B" -> "b" [] c = "C" -> "c" [] c = "D" -> "d"
       [] c = "E" -> "e" [] c = "F" -> "f" [] c = "G" -> "g" [] c = "H" -> "h"
       [] c = "I" -> "i" [] c = "J" -> "j" [] c = "K" -> "k" [] c = "L" -> "l"
       [] c = "M" -> "m" [] c = "N" -> "n" [] c = "O" -> "o" [] c = "P" -> "p"
       [] c = "Q" -> "q" [] c = "R" -> "r" [] c = "S" -> "s" [] c = "T" -> "t"
       [] c = "U" -> "u" [] c = "V" -> "v" [] c = "W" -> "w" [] c = "X" -> "x"
       [] c = "Y" -> "y" [] OTHER -> "z"]

Lower(s) ==
  List([i \in 1..Len(s) |-> IF s[i] \in DOMAIN UpperToLower THEN UpperToLower[s[i]] ELSE s[i]])

\* Python: re.split(r"[<delims>]+", s): the maximal runs of non-delimiters, with an
\* empty first (last) part when s starts (ends) with a delimiter.
RECURSIVE SplitRuns(_, _, _)
SplitRuns(s, delims, cur) ==
  IF Len(s) = 0 THEN <<cur>>
  ELSE IF s[1] \in delims
       THEN <<cur>> \o SplitRuns(LStripChars(s, delims), delims, <<>>)
       ELSE SplitRuns(Tail(s), delims, Append(cur, s[1]))

ReSplit(s, delims) == SplitRuns(s, delims, <<>>)

\* x in list
InList(x, list) == \E i \in 1..Len(list) : list[i] = x

\* any(w in text for w in words)
AnyIn(text, words) == \E i \in 1..Len(words) : Contains(text, words[i])

\* for w in words: text = text.replace(w, rep)
\* The index of the first word of words that occurs in text (0: none does).
FirstIn(text, words) ==
  IF AnyIn(text, words)
  THEN CHOOSE i \in 1..Len(words) :
         /\ Contains(text, words[i])
         /\ \A j \in 1..(i - 1) : ~Contains(text, words[j])
  ELSE 0

\* for w in words: text = text.replace(w, rep).  A word that does not occur leaves
\* the text as it is, so the loop is taken from one occurring word to the next.
RECURSIVE ReplaceAll(_, _, _)
ReplaceAll(text, words, rep) ==
  With(FirstIn(text, words), LAMBDA i :
    IF i = 0 THEN text
    ELSE With(Replace(text, words[i], rep), LAMBDA replaced :
           ReplaceAll(replaced, SubSeq(words, i + 1, Len(words)), rep)))


\* ------------------------------------------------------------ alphabet

\* Character classes used by detect_language's regular expressions.
\* The Japanese feature characters of the first regex (の は で す が ま く だ さ い て に を 気).
JaFeatureChars ==
  {"jp_no", "jp_ha", "jp_de", "jp_su", "jp_ga", "jp_ma", "jp_ku", "jp_da", "jp_sa",
   "jp_i", "jp_te", "jp_ni", "jp_wo", "jp_kanji_ki"}

\* Hiragana and katakana (U+3040..U+30FF) of the alphabet (も っ と る き つ added).
KanaChars ==
  (JaFeatureChars \ {"jp_kanji_ki"}) \cup {"jp_mo", "jp_tsu_s", "jp_to", "jp_ru", "jp_ki", "jp_tsu"}

\* Hangul syllables (U+AC00..U+D7AF) of the alphabet (안).
HangulChars == {"ko_an"}

\* Full-width punctuation: （ ） ， 。 ！ ？ 、 ； ：  (outside U+4E00..U+9FA5).
FullwidthPunct ==
  {"fw_lparen", "fw_rparen", "fw_comma", "fw_period", "fw_excl", "fw_q", "fw_dun",
   "fw_semi", "fw_colon"}

\* ord(c) < 128: the one-letter tokens.
IsAscii(c) == Len(c) = 1

\* [一-龥]: every other romanised token is a CJK ideograph.
IsCJK(c) == Len(c) > 1 /\ c \notin (KanaChars \cup HangulChars \cup FullwidthPunct)

\* The class [0-9\s,.?!:;'"()\[\]] removed before the pure-English test.
EnglishNoise ==
  {"0", "1", "2", "3", "4", "5", "6", "7", "8", "9", " ", ",", ".", "?", "!", ":", ";",
   "'", "(", ")", "[", "]"}

\* ---------------------------------------------------------- vocabulary

W_fujin == <<"fu", "jin">>                        \* 附近
W_xinjudian == <<"xin_heart", "ju", "dian">>      \* 心據點
W_menzhen == <<"men", "zhen">>                    \* 門診
W_kanzhen == <<"kan", "zhen">>                    \* 看診
W_wenzhang == <<"wen", "zhang">>                  \* 文章
W_yingpian == <<"ying", "pian">>                  \* 影片
W_shimian == <<"shi_lose", "mian">>               \* 失眠
W_shuimian == <<"shui", "mian">>                  \* 睡眠
W_shuibuzhao == <<"shui", "bu", "zhao_state">>    \* 睡不著
W_yali == <<"ya", "li_force">>                    \* 壓力
W_jiaolv == <<"jiao", "lv">>                      \* 焦慮
W_youyu == <<"you_worry", "yu">>                  \* 憂鬱
W_yisheng == <<"yi_med", "sheng">>                \* 醫生
W_xiayiye == <<"xia", "yi", "ye">>                \* 下一頁
W_xiangkan == <<"xiang", "kan">>                  \* 想看
W_ep_up == <<"fw_lparen", "shang", "fw_rparen">>  \* （上）
W_ep_down == <<"fw_lparen", "xia", "fw_rparen">>  \* （下）

\* --------------------------------------------------- language detection

\* detect_language: Japanese feature characters or kana, then hangul, then pure
\* ASCII after removing digits / spaces / punctuation, then CJK.  The last resort,
\* the langdetect library, finds no features in what is left (digits, punctuation)
\* and raises LangDetectException, which the code maps to "zh-TW".
detect_language(text) ==
  IF Len(text) = 0 THEN "zh-TW"
  ELSE IF \E i \in 1..Len(text) : text[i] \in JaFeatureChars THEN "ja"
  ELSE IF \E i \in 1..Len(text) : text[i] \in KanaChars THEN "ja"
  ELSE IF \E i \in 1..Len(text) : text[i] \in HangulChars THEN "ko"
  ELSE IF /\ \E i \in 1..Len(text) : text[i] \notin EnglishNoise
          /\ \A i \in 1..Len(text) : text[i] \notin EnglishNoise => IsAscii(text[i])
       THEN "en"
  ELSE IF \E i \in 1..Len(text) : IsCJK(text[i]) THEN "zh-TW"
  ELSE "zh-TW"

\* -------------------------------------------------------------- intents

\* The keyword list of detect_pagination_intent, in source order.
PaginationKeywords ==
  << <<"gei", "wo", "hou", "wu", "ge">>,          \* 給我後五個
     <<"gei", "wo", "xia", "wu", "ge">>,          \* 給我下五個
     <<"hou", "wu", "ge">>,                       \* 後五個
     <<"xia", "wu", "ge">>,                       \* 下五個
     W_xiayiye,                                   \* 下一頁
     <<"geng", "duo", "tui", "jian_rec">>,        \* 更多推薦
     Chars("next 5"),
     Chars("show me more"),
     Chars("more results"),
     <<"ci", "jp_no", "5", "jian_item">>,         \* 次の5件
     <<"jp_mo", "jp_tsu_s", "jp_to", "jian_see", "jp_ru">>,   \* もっと見る
     <<"xu_jp", "jp_ki">>,                        \* 続き
     <<"zui", "hou", "jp_no", "5", "jp_tsu">>,    \* 最後の5つ
     <<"zui", "hou", "jp_no", "5", "jp_tsu", "jp_wo", "jp_ku", "jp_da", "jp_sa", "jp_i">> >>  \* 最後の5つをください

detect_pagination_intent(q) == AnyIn(Strip(Lower(q)), PaginationKeywords)

ClinicKeywords == <<W_xinjudian, W_menzhen, W_kanzhen>>   \* 心據點, 門診, 看診

AddressPrefixes ==
  << <<"wo", "zhu", "zai">>, <<"wo", "zhu">>, <<"jia", "zai">>, <<"jia", "zhu">>,
     <<"zhu", "zai">>, <<"zhu">>, <<"zai">> >>    \* 我住在 我住 家在 家住 住在 住 在

AddressTailWords ==
  << <<"you", "mei", "you">>, <<"you", "ma">>, <<"ma">>, <<"ne">>, <<"a_particle">>,
     <<"la_particle">> >>                         \* 有沒有 有嗎 嗎 呢 啊 啦

AddressStripChars == {" ", "?", "fw_q", "!"}

MinAddressLen == 4

\* for kw in [...]: if kw in q: q = q.split(kw)[0]
RECURSIVE CutAtKeywords(_, _)
CutAtKeywords(q, kws) ==
  IF Len(kws) = 0 THEN q ELSE CutAtKeywords(SplitHead(q, kws[1]), Tail(kws))

\* for p in prefixes: if q.startswith(p): q = q[len(p):].strip(); break
RECURSIVE DropFirstPrefix(_, _)
DropFirstPrefix(q, ps) ==
  IF Len(ps) = 0 THEN q
  ELSE IF StartsWith(q, ps[1]) THEN Strip(SubSeq(q, Len(ps[1]) + 1, Len(q)))
  ELSE DropFirstPrefix(q, Tail(ps))

\* for t in tail_words: if q.endswith(t): q = q[:-len(t)].strip()
RECURSIVE DropTails(_, _)
DropTails(q, ts) ==
  IF Len(ts) = 0 THEN q
  ELSE DropTails(IF EndsWith(q, ts[1]) THEN Strip(SubSeq(q, 1, Len(q) - Len(ts[1]))) ELSE q,
                 Tail(ts))

\* extract_address_from_query up to, not including, the final length test.
AddressCandidate(q) ==
  StripChars(
    DropTails(
      DropFirstPrefix(Strip(CutAtKeywords(SplitHead(q, W_fujin), ClinicKeywords)),
                      AddressPrefixes),
      AddressTailWords),
    AddressStripChars)

\* An address of any length passes.
AddressOfAnyLength(q, min_len) == q

\* if len(q) < 4: return ""; return q
AddressOfLength(q, min_len) == IF Len(q) < min_len THEN <<>> ELSE q

extract_address_from_query(q) == AddressOfLength(AddressCandidate(q), MinAddressLen)

\* ADDR_HEAD_RE's city alternatives (CITY_PATTERN), in source order.
CITY_PATTERN ==
  << <<"tai", "bei", "shi_city">>,          \* 台北市
     <<"tai_trad", "bei", "shi_city">>,     \* 臺北市
     <<"xin_new", "bei", "shi_city">>,      \* 新北市
     <<"tao", "yuan", "shi_city">>,         \* 桃園市
     <<"tai_trad", "zhong", "shi_city">>,   \* 臺中市
     <<"tai", "zhong", "shi_city">>,        \* 台中市
     <<"tai_trad", "nan", "shi_city">>,     \* 臺南市
     <<"tai", "nan", "shi_city">>,          \* 台南市
     <<"gao", "xiong", "shi_city">>,        \* 高雄市
     <<"ji_base", "long", "shi_city">>,     \* 基隆市
     <<"xin_new", "zhu_bamboo", "shi_city">>,   \* 新竹市
     <<"jia_good", "yi_just", "shi_city">>, \* 嘉義市
     <<"xin_new", "zhu_bamboo", "xian">>,   \* 新竹縣
     <<"miao", "li_chestnut", "xian">>,     \* 苗栗縣
     <<"zhang_clear", "hua_change", "xian">>,   \* 彰化縣
     <<"nan", "tou", "xian">>,              \* 南投縣
     <<"yun", "lin", "xian">>,              \* 雲林縣
     <<"jia_good", "yi_just", "xian">>,     \* 嘉義縣
     <<"ping", "dong", "xian">>,            \* 屏東縣
     <<"yi_fit", "lan", "xian">>,           \* 宜蘭縣
     <<"hua_flower", "lian_lotus", "xian">>,    \* 花蓮縣
     <<"tai_trad", "dong", "xian">>,        \* 臺東縣
     <<"tai", "dong", "xian">>,             \* 台東縣
     <<"peng", "hu", "xian">>,              \* 澎湖縣
     <<"jin_gold", "men", "xian">>,         \* 金門縣
     <<"lian_link", "jiang", "xian">> >>    \* 連江縣

\* The district suffixes (區|鄉|鎮|市) of ADDR_HEAD_RE.
DistrictSuffixes == {"qu", "xiang_town", "zhen_town", "shi_city"}

\* ADDR_HEAD_RE.match(q): q starts with a city name, followed (lazily, after any
\* characters) by a district suffix.
ADDR_HEAD_RE_match(q) ==
  \E c \in 1..Len(CITY_PATTERN) :
    /\ StartsWith(q, CITY_PATTERN[c])
    /\ \E i \in (Len(CITY_PATTERN[c]) + 1)..Len(q) : q[i] \in DistrictSuffixes

\* The phrase lists of chat's nested detect_media_preference.
ArticlePreferencePhrases ==
  << <<"xiang", "kan", "wen", "zhang">>,          \* 想看文章
     <<"gei", "wo", "wen", "zhang">>,             \* 給我文章
     <<"zhi", "you", "wen", "zhang">>,            \* 只有文章
     <<"wen", "zhang", "tui", "jian_rec">>,       \* 文章推薦
     <<"zhao", "wen", "zhang">>,                  \* 找文章
     <<"zhi", "xiang", "kan", "wen", "zhang">> >> \* 只想看文章

VideoPreferencePhrases ==
  << <<"xiang", "kan", "ying", "pian">>,          \* 想看影片
     <<"gei", "wo", "ying", "pian">>,             \* 給我影片
     <<"bo", "fang", "ying", "pian">>,            \* 播放影片
     <<"ying", "yin">>,                           \* 影音
     <<"kan", "ying", "pian">>,                   \* 看影片
     Chars("youtube"),
     <<"zhi", "xiang", "kan", "ying", "pian">> >> \* 只想看影片

\* Python None, for the values that are otherwise short ASCII strings.
None == "None"

detect_media_preference(text) ==
  IF AnyIn(text, ArticlePreferencePhrases) THEN "article"
  ELSE IF AnyIn(text, VideoPreferencePhrases) THEN "video"
  ELSE None

\* chat lines 855-861: strip the preference phrases, then the bare media word.
CleanMediaPreference(q_search) ==
  With(detect_media_preference(q_search), LAMBDA pref :
    Strip(IF pref = "article"
          THEN ReplaceAll(q_search, Append(ArticlePreferencePhrases, W_wenzhang), <<>>)
          ELSE IF pref = "video"
          THEN ReplaceAll(q_search, Append(VideoPreferencePhrases, W_yingpian), <<>>)
          ELSE q_search))

\* ------------------------------------------------------------- taxonomy

\* keywords.json as load_keywords_from_json reads it at import: the categories of
\* "mental_keywords" in file order (a dict keeps insertion order) and "stop_words".
\* The file is configuration outside the repository's code; this is a small one.
KEYWORDS_DATA ==
  << [category |-> "sleep", kws |-> <<W_shimian, W_shuibuzhao, W_shuimian>>],   \* 失眠 睡不著 睡眠
     [category |-> "stress", kws |-> <<W_yali, W_jiaolv>>] >>                    \* 壓力 焦慮

STOP_WORDS == << <<"zen", "me", "ban">>, <<"ke", "yi">> >>    \* 怎麼辦 可以

\* The functional_words list of normalize_query, in source order.
functional_words ==
  << W_wenzhang,                     \* 文章
     W_yingpian,                     \* 影片
     W_xiangkan,                     \* 想看
     <<"gei", "wo">>,                \* 給我
     <<"zhi", "you">>,               \* 只有
     <<"zhi", "xiang", "kan">>,      \* 只想看
     <<"tui", "jian_rec">>,          \* 推薦
     <<"ying", "yin">>,              \* 影音
     <<"bo", "fang">>,               \* 播放
     <<"cha", "xun">>,               \* 查詢
     <<"zhao">>,                     \* 找
     <<"you", "na", "xie">>,         \* 有哪些
     <<"jie", "shao">> >>            \* 介紹

\* The delimiter class [，。！!？?\s、；;:：] of normalize_query's re.split.
TermDelimiters ==
  {"fw_comma", "fw_period", "fw_excl", "!", "fw_q", "?", " ", "fw_dun", "fw_semi", ";",
   ":", "fw_colon"}

\* list with x appended unless already there
AppendNew(list, x) == IF InList(x, list) THEN list ELSE Append(list, x)

RECURSIVE AppendAllNew(_, _)
AppendAllNew(list, xs) ==
  IF Len(xs) = 0 THEN list ELSE AppendAllNew(AppendNew(list, xs[1]), Tail(xs))

\* The keywords of kws that occur in q, in order.
RECURSIVE KeywordsIn(_, _)
KeywordsIn(q, kws) ==
  IF Len(kws) = 0 THEN <<>>
  ELSE (IF Contains(q, kws[1]) THEN <<kws[1]>> ELSE <<>>) \o KeywordsIn(q, Tail(kws))

\* normalize_query's first loop: the taxonomy keywords contained in q.
RECURSIVE CoreTerms(_, _)
CoreTerms(q, data) ==
  IF Len(data) = 0 THEN <<>>
  ELSE AppendAllNew(CoreTerms(q, SubSeq(data, 1, Len(data) - 1)),
                    KeywordsIn(q, data[Len(data)].kws))

\* normalize_query's second loop: the other keywords of every matched category.
\* found_categories is a Python set, iterated in hash order; the categories are
\* taken here in file order, which changes only the order of the list, and the
\* list is read only through sums and membership tests.
RECURSIVE ExpandedTerms(_, _, _)
ExpandedTerms(q, data, core) ==
  IF Len(data) = 0 THEN <<>>
  ELSE AppendAllNew(ExpandedTerms(q, SubSeq(data, 1, Len(data) - 1), core),
                    IF Len(KeywordsIn(q, data[Len(data)].kws)) > 0
                    THEN SelectSeq(data[Len(data)].kws, LAMBDA kw : ~InList(kw, core))
                    ELSE <<>>)

\* normalize_query's last loop: the residual parts of length >= 2 that are no stop word.
RECURSIVE OtherTerms(_, _)
OtherTerms(parts, stop) ==
  IF Len(parts) = 0 THEN <<>>
  ELSE AppendAllNew(OtherTerms(SubSeq(parts, 1, Len(parts) - 1), stop),
                    IF Len(parts[Len(parts)]) >= 2 /\ ~InList(parts[Len(parts)], stop)
                    THEN <<parts[Len(parts)]>>
                    ELSE <<>>)

\* normalize_query(q) against the taxonomy (data, stop) that is loaded.
normalize_query(query, data, stop) ==
  With(Lower(Strip(query)), LAMBDA q :
    IF Len(q) = 0
    THEN [user_core |-> <<>>, expanded |-> <<>>, other |-> <<>>]
    ELSE With(CoreTerms(q, data), LAMBDA core :
           [user_core |-> core,
            expanded |-> ExpandedTerms(q, data, core),
            other |-> OtherTerms(
                        ReSplit(ReplaceAll(ReplaceAll(q, core, <<" ">>), functional_words, <<" ">>),
                                TermDelimiters),
                        stop)]))

\* ------------------------------------------------------- lexical scorer

RECURSIVE SumSeq(_)
SumSeq(s) == IF Len(s) = 0 THEN 0 ELSE s[1] + SumSeq(Tail(s))

\* One loop of score_unit: in_title if kw in title, per_hit for each occurrence in content.
TermScore(terms, title, content, in_title, per_hit) ==
  SumSeq([i \in 1..Len(terms) |->
            (IF Contains(title, terms[i]) THEN in_title ELSE 0)
              + Count(content, terms[i]) * per_hit])

\* sum(1 for kw in terms if kw in seg_text)
HitCount(terms, seg_text) == Cardinality({i \in 1..Len(terms) : Contains(seg_text, terms[i])})

\* hits of a subtitle segment, in hundredths: core hits, else expanded hits * 0.5
SegmentHits(seg_text, user_core, expanded_core) ==
  With(HitCount(user_core, seg_text), LAMBDA core_hits :
    IF core_hits > 0 THEN core_hits * 100 ELSE HitCount(expanded_core, seg_text) * 50)

\* best_seg: the first segment with the highest positive hits (0: None)
BestSegment(subtitles, user_core, expanded_core) ==
  With(List([i \in 1..Len(subtitles) |-> SegmentHits(subtitles[i], user_core, expanded_core)]),
       LAMBDA hits :
    With({i \in 1..Len(subtitles) :
            /\ hits[i] > 0
            /\ \A j \in 1..Len(subtitles) : hits[j] <= hits[i]},
         LAMBDA best :
      IF best = {} THEN 0 ELSE CHOOSE i \in best : \A j \in best : i <= j))

\* count_continuous_hits: windows of three consecutive segments that all hit
ContinuousHits(subtitles, user_core, expanded_core) ==
  Cardinality({i \in 1..(Len(subtitles) - 2) :
                 \A k \in 0..2 : SegmentHits(subtitles[i + k], user_core, expanded_core) > 0})

\* score_unit: <<score in hundredths, best segment index>>
score_unit(unit, user_core, expanded_core, other_terms) ==
  LET title == unit.section_title \o unit.title
      content == unit.content_text
  IN  IF Len(title) = 0 /\ Len(content) = 0 THEN <<0, 0>>
      ELSE << TermScore(user_core, title, content, 1000, 400)
                + TermScore(expanded_core, title, content, 500, 200)
                + TermScore(other_terms, title, content, 100, 50)
                + ContinuousHits(unit.subtitles, user_core, expanded_core) * 200,
              BestSegment(unit.subtitles, user_core, expanded_core) >>

\* ---------------------------------------------------------- stable sort

\* a < b for two integer tuples of one length, lexicographically
LexLess(a, b) ==
  \E k \in 1..Len(a) : a[k] < b[k] /\ \A j \in 1..(k - 1) : a[j] = b[j]

\* The indices 1..n in ascending order of keys, equal keys in index order
\* (list.sort and sorted are stable): the index with p - 1 indices before it is
\* the p-th.
SortedIdx(keys, n) ==
  With(List([i \in 1..n |->
               Cardinality({j \in 1..n :
                              \/ LexLess(keys[j], keys[i])
                              \/ j < i /\ ~LexLess(keys[i], keys[j])})]), LAMBDA before :
    List([p \in 1..n |-> CHOOSE i \in 1..n : before[i] = p - 1]))

StableSort(items, keys) ==
  With(List(keys), LAMBDA ks :
    With(SortedIdx(ks, Len(items)), LAMBDA idx :
      List([i \in 1..Len(items) |-> items[idx[i]]])))

\* results.sort(key=lambda x: x["_score"], reverse=True): descending, and equal
\* scores keep their order (reverse=True preserves stability).
SortByScoreDesc(results) ==
  StableSort(results, [i \in 1..Len(results) |-> <<-results[i]._score>>])

\* ------------------------------------------------------------- episodes

\* The alternatives of EP_TAG_RE, in source order:
\* （上） （下） (上) (下) 上篇 下篇 上集 下集
EP_TAG_RE ==
  << W_ep_up, W_ep_down, <<"(", "shang", ")">>, <<"(", "xia", ")">>,
     <<"shang", "pian_part">>, <<"xia", "pian_part">>,
     <<"shang", "ji_set">>, <<"xia", "ji_set">> >>

\* The alternatives of get_episode_tag's two searches.
EpisodeUpTags == <<W_ep_up, <<"(", "shang", ")">>, <<"shang", "pian_part">>, <<"shang", "ji_set">> >>

EpisodeDownTags == <<W_ep_down, <<"(", "xia", ")">>, <<"xia", "pian_part">>, <<"xia", "ji_set">> >>

\* get_episode_tag: "up" is 上, "down" is 下.
get_episode_tag(title) ==
  IF Len(title) = 0 THEN None
  ELSE With(Strip(title), LAMBDA t :
         IF AnyIn(t, EpisodeUpTags) THEN "up"
         ELSE IF AnyIn(t, EpisodeDownTags) THEN "down"
         ELSE None)

\* EP_TAG_RE.sub("", t): one left-to-right pass, the first alternative that matches
\* at a position is removed and the scan goes on after it.
RECURSIVE EpTagSub(_)
EpTagSub(t) ==
  IF Len(t) = 0 THEN <<>>
  ELSE IF \E k \in 1..Len(EP_TAG_RE) : StartsWith(t, EP_TAG_RE[k])
       THEN LET k == CHOOSE k \in 1..Len(EP_TAG_RE) :
                       /\ StartsWith(t, EP_TAG_RE[k])
                       /\ \A j \in 1..(k - 1) : ~StartsWith(t, EP_TAG_RE[j])
            IN  EpTagSub(SubSeq(t, Len(EP_TAG_RE[k]) + 1, Len(t)))
       ELSE <<t[1]>> \o EpTagSub(Tail(t))

\* re.sub(r"\s+", "", s)
RemoveWhitespace(s) == SelectSeq(s, LAMBDA c : c \notin Whitespace)

\* get_base_key: f"{s2}||{t2}"
get_base_key(section_title, title) ==
  RemoveWhitespace(Strip(section_title)) \o <<"|", "|">>
    \o RemoveWhitespace(EpTagSub(Strip(title)))

BaseKeyOf(r) == get_base_key(r.section_title, r.title)

\* The two parts ranked the wrong way round: 下 first.
item_rank_down_first(r) ==
  With(get_episode_tag(r.title), LAMBDA tag :
    IF tag = "down" THEN 0 ELSE IF tag = "up" THEN 1 ELSE 2)

\* item_rank of reorder_episode_pairs
item_rank(r) ==
  With(get_episode_tag(r.title), LAMBDA tag :
    IF tag = "up" THEN 0 ELSE IF tag = "down" THEN 1 ELSE 2)

\* One step of reorder_episode_pairs' first loop: the item r at index idx, of base
\* key key, opens a group or joins the group of its key.
AddToGroups(groups, r, key, idx) ==
  IF \A g \in 1..Len(groups) : groups[g].key # key
  THEN Append(groups, [key |-> key, items |-> <<r>>, best_score |-> r._score,
                       first_idx |-> idx])
  ELSE [g \in 1..Len(groups) |->
          IF groups[g].key = key
          THEN [groups[g] EXCEPT !.items = Append(@, r), !.best_score = Max2(@, r._score)]
          ELSE groups[g]]

\* The groups dict of reorder_episode_pairs after its first loop: one entry per
\* base key, in first-seen order, with its items, best score and first index.
RECURSIVE EpisodeGroups(_, _)
EpisodeGroups(results, n) ==
  IF n = 0 THEN <<>>
  ELSE AddToGroups(EpisodeGroups(results, n - 1), results[n], BaseKeyOf(results[n]), n - 1)

RECURSIVE Flatten(_)
Flatten(seqs) == IF Len(seqs) = 0 THEN <<>> ELSE seqs[1] \o Flatten(Tail(seqs))

\* g["items"].sort(key=item_rank), item_rank giving (0 | 1 | 2, -score)
SortedItems(items) ==
  StableSort(items, [i \in 1..Len(items) |-> <<item_rank(items[i]), -items[i]._score>>])

\* sorted(groups.values(), key=lambda g: (-g["best_score"], g["first_idx"]))
OrderedGroups(groups) ==
  StableSort(groups, [g \in 1..Len(groups) |-> <<-groups[g].best_score, groups[g].first_idx>>])

\* reorder_episode_pairs
reorder_episode_pairs(results) ==
  With(OrderedGroups(EpisodeGroups(results, Len(results))), LAMBDA ordered_groups :
    Flatten(List([g \in 1..Len(ordered_groups) |-> SortedItems(ordered_groups[g].items)])))

\* -------------------------------------------------------------- catalog

\* A ContentUnit of the catalog file, with the fields the search reads.
Unit(id, section_title, title, content_text, is_article, subtitles) ==
  [id |-> id, section_title |-> section_title, title |-> title,
   content_text |-> content_text, is_article |-> is_article, subtitles |-> subtitles]

\* UNITS_CACHE = load_all_units(): the catalog file is data outside the repository's
\* code; this is a small catalog with a two-part series, articles and videos.
UNITS_CACHE ==
  << Unit(1, W_shuimian, W_shimian \o W_ep_up, <<>>, FALSE,
          <<W_shimian, W_shimian \o <<"de">>, W_shimian>>),            \* 睡眠 / 失眠（上）
     Unit(2, W_shuimian, W_shimian \o W_ep_down, W_shimian, FALSE, <<>>),  \* 睡眠 / 失眠（下）
     Unit(3, <<>>, W_shimian \o <<"bi", "ji_note">>, W_shimian \o W_shimian, TRUE, <<>>),  \* 失眠筆記
     Unit(4, <<>>, W_yali, W_yali \o W_shimian, FALSE, <<>>),           \* 壓力
     Unit(5, <<>>, W_shuibuzhao, W_shimian, TRUE, <<>>),                \* 睡不著
     Unit(6, <<>>, W_jiaolv, W_shimian \o <<" ">> \o W_jiaolv, FALSE, <<>>),   \* 焦慮
     Unit(7, <<>>, <<"hao", "mian">>, W_shimian \o <<"de", "ren">>, TRUE, <<>>),   \* 好眠
     Unit(8, <<>>, <<"fang", "song">>, <<"hu_breath", "xi">>, FALSE, <<>>) >>    \* 放鬆

UnitIds == 1..Len(UNITS_CACHE)

\* --------------------------------------------------------------- search

\* The scored copy of a unit that search_units and search_units_semantic build
\* (r = dict(u); r["_score"] = ...; r["_best_segment"] = ...).
Scored(u, score, best_seg) ==
  [id |-> u.id, section_title |-> u.section_title, title |-> u.title,
   is_article |-> u.is_article, _score |-> score, _best_segment |-> best_seg]

\* The term lists search_units scores with: normalize_query, then the whole-query
\* fallback of line 400 (on the query as passed, not the normalized one).
SearchTerms(query, data, stop) ==
  With(normalize_query(query, data, stop), LAMBDA t :
    IF Len(t.user_core) = 0 /\ Len(query) >= 2
    THEN [t EXCEPT !.user_core = <<query>>]
    ELSE t)

\* search_units(units, query)
search_units(units, query) ==
  With(SearchTerms(query, KEYWORDS_DATA, STOP_WORDS), LAMBDA t :
    IF Len(t.user_core) = 0 /\ Len(t.other) = 0 THEN <<>>
    ELSE With(List([i \in 1..Len(units) |->
                      score_unit(units[i], t.user_core, t.expanded, t.other)]), LAMBDA s :
           With(SelectSeq(List([i \in 1..Len(units) |-> i]), LAMBDA i : s[i][1] > 0),
                LAMBDA hit :
             SortByScoreDesc(List([k \in 1..Len(hit) |->
                                    Scored(units[hit[k]], s[hit[k]][1], s[hit[k]][2])])))))

\* ----------------------------------------------------- vector retrieval

\* MODEL_CONFIGS' keys, in source order (the order init_vector_model fills VECTOR_CACHE in).
MODEL_CONFIGS == <<"v4", "v3", "v2-zh">>

\* The relevance floor of search_units_semantic and execute_hybrid_search: 0.25.
VECTOR_FLOOR == 25

\* VECTOR_WEIGHT_BOOST = 20.0 and VECTOR_WEIGHT_BASE = 10.0 of execute_hybrid_search.
VECTOR_WEIGHT_BOOST == 20

VECTOR_WEIGHT_BASE == 10

\* np.dot(corpus, query_vec) for the query's embedding under a model: one cosine
\* similarity per unit of UNITS_CACHE, in hundredths.  The embedding service and the
\* vector files are outside the repository's code: these are the similarities of a
\* small corpus, different under each model, for the queries about 失眠 and 痛.
CosineScores(query, model_key) ==
  IF Contains(query, W_shimian)
  THEN (IF model_key = "v2-zh" THEN <<20, 30, 55, 10, 15, 12, 22, 45>>
        ELSE <<62, 24, 18, 10, 31, 20, 12, 40>>)
  ELSE IF Contains(query, <<"tong">>)
  THEN (IF model_key = "v2-zh" THEN <<5, 6, 7, 8, 9, 10, 11, 25>>
        ELSE <<5, 6, 7, 8, 9, 10, 11, 30>>)
  ELSE <<3, 4, 5, 6, 7, 8, 9, 10>>

\* np.argsort(scores)[-top_k:][::-1]: the indices by ascending score, the last top_k
\* of them, reversed.  (Equal scores: the corpus above has none.)
TopIndices(scores, top_k) ==
  With(StableSort([i \in 1..Len(scores) |-> i], [i \in 1..Len(scores) |-> <<scores[i]>>]),
       LAMBDA asc :
    With(SubSeq(asc, Max2(1, Len(asc) - top_k + 1), Len(asc)), LAMBDA last :
      List([i \in 1..Len(last) |-> last[Len(last) + 1 - i]])))

\* search_units_semantic(query, model_key, top_k): [] when the model has no vector
\* matrix, when get_jina_embedding raises (no API key) or returns None (the request
\* failed); else the units above the floor, best first.
search_units_semantic(query, model_key, top_k, cache, api_key, api_up) ==
  IF model_key \notin cache THEN <<>>
  ELSE IF ~api_key \/ ~api_up THEN <<>>
  ELSE With(CosineScores(query, model_key), LAMBDA scores :
         With(SelectSeq(TopIndices(scores, top_k), LAMBDA i : scores[i] > VECTOR_FLOOR),
              LAMBDA kept :
           List([k \in 1..Len(kept) |-> Scored(UNITS_CACHE[kept[k]], scores[kept[k]], 0)])))

\* ------------------------------------------------------- hybrid merger

\* The model key execute_hybrid_search searches with (lines 733-738).
EffectiveModel(model_key, cache) ==
  IF model_key \in cache THEN model_key
  ELSE IF "v3" \notin cache /\ cache # {}
       THEN MODEL_CONFIGS[CHOOSE i \in 1..Len(MODEL_CONFIGS) :
                            /\ MODEL_CONFIGS[i] \in cache
                            /\ \A j \in 1..(i - 1) : MODEL_CONFIGS[j] \notin cache]
       ELSE "v3"

\* combined_map is a dict: a sequence of [key, r] in insertion order.
MapHas(map, key) == \E i \in 1..Len(map) : map[i].key = key

MapIndex(map, key) == CHOOSE i \in 1..Len(map) : map[i].key = key

\* combined_map[key] = r: a new key goes last, an old key keeps its place.
MapPut(map, key, r) ==
  IF MapHas(map, key) THEN [map EXCEPT ![MapIndex(map, key)].r = r]
  ELSE Append(map, [key |-> key, r |-> r])

\* The first loop of execute_hybrid_search: the keyword results.
RECURSIVE PutKeywordResults(_, _)
PutKeywordResults(kw_results, n) ==
  IF n = 0 THEN <<>>
  ELSE MapPut(PutKeywordResults(kw_results, n - 1), BaseKeyOf(kw_results[n]), kw_results[n])

\* One step of the second loop: a vector result boosts the entry of its key, or is
\* admitted with the base weight.
MergeVectorResult(map, r) ==
  With(BaseKeyOf(r), LAMBDA key :
    IF MapHas(map, key)
    THEN [map EXCEPT ![MapIndex(map, key)].r._score = @ + r._score * VECTOR_WEIGHT_BOOST]
    ELSE IF r._score > VECTOR_FLOOR
         THEN Append(map, [key |-> key, r |-> [r EXCEPT !._score = @ * VECTOR_WEIGHT_BASE]])
         ELSE map)

RECURSIVE MergeVectorResults(_, _, _)
MergeVectorResults(map, vec_results, n) ==
  IF n = 0 THEN map
  ELSE MergeVectorResult(MergeVectorResults(map, vec_results, n - 1), vec_results[n])

\* The merge of execute_hybrid_search (lines 749-775) on given result lists.
HybridMerge(kw_results, vec_results) ==
  With(MergeVectorResults(PutKeywordResults(kw_results, Len(kw_results)),
                          vec_results, Len(vec_results)), LAMBDA map :
    SortByScoreDesc(List([i \in 1..Len(map) |-> map[i].r])))

\* execute_hybrid_search(search_query, model_key)
execute_hybrid_search(search_query, model_key, cache, api_key, api_up) ==
  With(search_units(UNITS_CACHE, search_query), LAMBDA kw_results :
    With(search_units_semantic(search_query, EffectiveModel(model_key, cache), 50,
                               cache, api_key, api_up), LAMBDA vec_results :
      HybridMerge(kw_results, vec_results)))

\* ------------------------------------------------------------ responses

TOP_K == 5

\* A user-facing message: the literal of the code by a key, the language it is
\* shown in (translate_text(msg, final_lang) or the ui table of that language),
\* and the text formatted into it.
Msg(key, lang, arg) == [key |-> key, lang |-> lang, arg |-> arg]

\* One entry of response["results"]: the fields that come from the unit and its
\* score (hint, snippet, links and translated titles are display text).
Item(r) ==
  [section_title |-> r.section_title, title |-> r.title, score |-> r._score,
   is_article |-> r.is_article, type |-> IF r.is_article THEN "article" ELSE "video"]

\* results[offset: offset + limit]
Page(results, offset, limit) == SubSeq(results, offset + 1, Min2(offset + limit, Len(results)))

\* A page is said to have a successor whenever it starts inside the list.
HasMoreIgnoringLimit(offset, limit, total) == offset < total

\* "has_more": offset + limit < total
HasMore(offset, limit, total) == offset + limit < total

\* build_recommendations_response(query, results, offset, limit, target_lang)
build_recommendations_response(query, results, offset, limit, target_lang) ==
  IF Len(results) = 0
  THEN [type |-> "course_recommendation", query |-> query, total |-> 0, video_count |-> 0,
        article_count |-> 0, offset |-> offset, limit |-> limit, has_more |-> FALSE,
        results |-> <<>>, message |-> Msg("not_found", target_lang, <<>>)]
  ELSE With(reorder_episode_pairs(results), LAMBDA ordered :
         With(Page(ordered, offset, limit), LAMBDA page :
           [type |-> "course_recommendation", query |-> query, total |-> Len(ordered),
            video_count |-> Cardinality({i \in 1..Len(ordered) : ~ordered[i].is_article}),
            article_count |-> Cardinality({i \in 1..Len(ordered) : ordered[i].is_article}),
            offset |-> offset, limit |-> limit, has_more |-> HasMore(offset, limit, Len(ordered)),
            results |-> List([i \in 1..Len(page) |-> Item(page[i])]),
            header_text |-> [start |-> offset + 1, end |-> Min2(offset + limit, Len(ordered))],
            message |-> Msg(IF offset + limit < Len(ordered) THEN "more_btn" ELSE "empty",
                            target_lang, <<>>)]))

\* full_results = [r for r in full_results if ...] under a filter_type
FilterMedia(results, filter_type) ==
  IF filter_type = "article" THEN SelectSeq(results, LAMBDA r : r.is_article)
  ELSE IF filter_type = "video" THEN SelectSeq(results, LAMBDA r : ~r.is_article)
  ELSE results

\* ---------------------------------------------------------- dict access

\* d.get(k, default)
Get(d, k, default) == IF k \in DOMAIN d THEN d[k] ELSE default

\* d[k] = v
SetKey(d, k, v) == [j \in DOMAIN d \cup {k} |-> IF j = k THEN v ELSE d[j]]

\* ---------------------------------------------------------- translation

\* What the translation service answers for a text (GoogleTranslator.translate):
\* the service is outside the repository's code.  For the English "next 5" it may
\* answer 下五個 or 接下來五個; any other text of the model comes back unchanged.
TranslatorOutputs(text, target) ==
  IF text = Chars("next 5") /\ target = "zh-TW"
  THEN { <<"xia", "wu", "ge">>, <<"jie_next", "xia", "lai", "wu", "ge">> }
  ELSE {text}

\* The outcomes of one call of the service: an answer, or an exception.
TranslatorOutcomes(text, target) ==
  {[ok |-> TRUE, text |-> t] : t \in TranslatorOutputs(text, target)}
    \cup {[ok |-> FALSE, text |-> <<>>]}

CacheHas(cache, text, target) == \E e \in cache : e.text = text /\ e.target = target

CacheGet(cache, text, target) == (CHOOSE e \in cache : e.text = text /\ e.target = target).result

\* Whether translate_text(text, target) calls the service.
TranslateCallsService(text, target, cache) ==
  /\ Len(text) > 0
  /\ ~(target = "zh-TW" /\ detect_language(text) = "zh-TW")
  /\ ~CacheHas(cache, text, target)

\* translate_text(text, target) with the service's outcome tr: the text returned
\* (the original text when the service raises).
translate_text(text, target, cache, tr) ==
  IF Len(text) = 0 THEN <<>>
  ELSE IF target = "zh-TW" /\ detect_language(text) = "zh-TW" THEN text
  ELSE IF CacheHas(cache, text, target) THEN CacheGet(cache, text, target)
  ELSE IF tr.ok THEN tr.text
  ELSE text

\* TRANSLATION_CACHE after translate_text(text, target) with the service's outcome tr.
TranslationCacheAfter(text, target, cache, tr) ==
  IF TranslateCallsService(text, target, cache) /\ tr.ok
  THEN cache \cup {[text |-> text, target |-> target, result |-> tr.text]}
  ELSE cache

\* ---------------------------------------------------------------- store

HISTORY_CAP == 50

\* chat lines 824-830: the newest detected_lang of the history that is not zh-TW
RECURSIVE HistoricalLang(_)
HistoricalLang(history_list) ==
  IF Len(history_list) = 0 THEN "zh-TW"
  ELSE IF Get(history_list[Len(history_list)], "detected_lang", "zh-TW") # "zh-TW"
       THEN history_list[Len(history_list)].detected_lang
       ELSE HistoricalLang(SubSeq(history_list, 1, Len(history_list) - 1))

\* next((h for h in reversed(history_list) if ... type == "course_recommendation"), None):
\* the index of the newest recommendation, 0 for None
LastRecommendation(history_list) ==
  LET recs == {i \in 1..Len(history_list) :
                 history_list[i].response.type = "course_recommendation"}
  IN  IF recs = {} THEN 0 ELSE CHOOSE i \in recs : \A j \in recs : j <= i

\* prev_resp.get("query_raw") or prev_resp.get("query")
StoredQuery(prev_resp) ==
  IF Len(Get(prev_resp, "query_raw", <<>>)) > 0 THEN prev_resp.query_raw
  ELSE Get(prev_resp, "query", <<>>)

\* A turn that is answered and not recorded.
ForgetTurn(history_list, entry) == history_list

\* chat lines 1012-1018: append, then evict the oldest entry beyond the cap
AppendTurn(history_list, entry) ==
  LET appended == Append(history_list, entry)
  IN  IF Len(appended) > HISTORY_CAP THEN Tail(appended) ELSE appended

\* ------------------------------------------------------ location routes

\* What the geocoder and the point store give for an address (both outside the
\* repository's code): "miss" geocode_address returns None; "far" coordinates with
\* no point within 5 km; "near" coordinates with points in range.
GeoOutcomes == {"miss", "far", "near"}

\* find_nearby_points(lat, lon) for an outcome of the collaborators.
find_nearby_points(geo) == IF geo = "near" THEN <<"xin_point">> ELSE <<>>

\* build_nearby_points_response(address, results)
build_nearby_points_response(address, results) ==
  IF Len(results) = 0
  THEN [type |-> "xin_points", address |-> address, points |-> <<>>,
        message |-> Msg("no_points_within_5km", "zh-TW", address)]
  ELSE [type |-> "xin_points", address |-> address, points |-> results]

\* chat lines 878-886 and 889-897: geocode the address and list the points near it.
LocateResponse(address, geo, final_lang) ==
  IF geo = "miss"
  THEN [type |-> "xin_points", address |-> address, points |-> <<>>,
        message |-> Msg("address_unknown", final_lang, address)]
  ELSE build_nearby_points_response(address, find_nearby_points(geo))

\* ------------------------------------------------------------ /chat

\* chat lines 832-839: the language the request is answered in.
FinalLang(q_origin, history_list) ==
  With(detect_language(q_origin), LAMBDA current_detected :
    With(HistoricalLang(history_list), LAMBDA historical_lang :
      IF current_detected # "zh-TW" THEN current_detected
      ELSE IF detect_pagination_intent(q_origin) /\ historical_lang # "zh-TW"
           THEN historical_lang
      ELSE "zh-TW"))

\* The branch of chat's if / elif chain (lines 871-966) a translated query takes.
RouteOf(q_search, media_pref_check, q_cleaned) ==
  IF Contains(q_search, W_fujin) /\ AnyIn(q_search, ClinicKeywords) THEN "nearby_clinic"
  ELSE IF ADDR_HEAD_RE_match(q_search) THEN "direct_address"
  ELSE IF detect_pagination_intent(q_search) THEN "pagination_continue"
  ELSE IF media_pref_check # None /\ Len(q_cleaned) = 0 THEN "media_preference_only"
  ELSE "general_recommendation"

\* The ids of the full result list a recommendation pages over, in page order
\* (an observation of the handler's local full_results, not a field of the code).
FullOrder(results) ==
  With(IF Len(results) = 0 THEN <<>> ELSE reorder_episode_pairs(results), LAMBDA ordered :
    List([i \in 1..Len(ordered) |-> ordered[i].id]))

\* What a branch did: the response it built and what it called on the way
\* (searched: the queries given to execute_hybrid_search; geocoded: the addresses
\* given to geocode_address; full: FullOrder of its full_results).
Outcome(route, searched, geocoded, full, resp) ==
  [route |-> route, searched |-> searched, geocoded |-> geocoded, full |-> full, resp |-> resp]

\* Case A (lines 871-886): a proximity word and a clinic word.
NearbyClinic(q_search, final_lang, geo) ==
  With(extract_address_from_query(q_search), LAMBDA addr :
    IF Len(addr) = 0
    THEN Outcome("nearby_clinic", <<>>, <<>>, <<>>,
                 [type |-> "xin_points", address |-> None, points |-> <<>>,
                  message |-> Msg("address_unclear", final_lang, <<>>)])
    ELSE Outcome("nearby_clinic", <<>>, <<addr>>, <<>>, LocateResponse(addr, geo, final_lang)))

\* Lines 888-897: the query starts as an address.
DirectAddress(q_search, final_lang, geo) ==
  Outcome("direct_address", <<>>, <<q_search>>, <<>>, LocateResponse(q_search, geo, final_lang))

\* A continuation that does not advance: the page of the previous response again.
SameOffset(prev_resp) == prev_resp.offset

\* new_offset = prev_resp["offset"] + prev_resp["limit"]
NextOffset(prev_resp) == prev_resp.offset + prev_resp.limit

\* Case B (lines 900-929): "show more".
PaginationContinue(history_list, target_model, final_lang, vcache, api_key, api_up) ==
  With(LastRecommendation(history_list), LAMBDA last :
    IF last = 0
    THEN Outcome("pagination_continue", <<>>, <<>>, <<>>,
                 [type |-> "text",
                  message |-> Msg("no_previous_recommendation", final_lang, <<>>)])
    ELSE With(history_list[last].response, LAMBDA prev_resp :
      With(StoredQuery(prev_resp), LAMBDA prev_query :
        With(Get(prev_resp, "filter_type", None), LAMBDA prev_filter :
          With(FilterMedia(
                 execute_hybrid_search(prev_query, target_model, vcache, api_key, api_up),
                 prev_filter), LAMBDA full_results :
            Outcome("pagination_continue", <<prev_query>>, <<>>, FullOrder(full_results),
                    SetKey(SetKey(build_recommendations_response(
                                    prev_query, full_results,
                                    NextOffset(prev_resp), TOP_K, final_lang),
                                  "filter_type", prev_filter),
                           "query_raw", prev_query)))))))

\* resp["message"] = ... if not resp["results"] (lines 960-963 and 995-998)
NoContentMessage(resp, override, final_lang, topic) ==
  IF override /\ Len(resp.results) = 0
  THEN SetKey(resp, "message", Msg("no_content_about", final_lang, topic))
  ELSE resp

\* Case C (lines 932-963): a media preference and nothing else.
MediaPreferenceOnly(q_search, media_pref_check, history_list, target_model, final_lang, vcache, api_key, api_up) ==
  With(LastRecommendation(history_list), LAMBDA last :
    IF last = 0
    THEN Outcome("media_preference_only", <<>>, <<>>, <<>>,
                 [type |-> "course_recommendation", query |-> q_search, total |-> 0,
                  video_count |-> 0, article_count |-> 0, offset |-> 0, limit |-> TOP_K,
                  has_more |-> FALSE, results |-> <<>>,
                  message |-> Msg("ask_for_topic", final_lang, <<>>)])
    ELSE With(StoredQuery(history_list[last].response), LAMBDA original_topic :
      With(FilterMedia(
             execute_hybrid_search(original_topic, target_model, vcache, api_key, api_up),
             media_pref_check), LAMBDA full_results :
        Outcome("media_preference_only", <<original_topic>>, <<>>, FullOrder(full_results),
                NoContentMessage(
                  SetKey(SetKey(build_recommendations_response(
                                  original_topic, full_results, 0, TOP_K, final_lang),
                                "filter_type", media_pref_check),
                         "query_raw", original_topic),
                  TRUE, final_lang, original_topic)))))

\* Case D (lines 966-998): the general search.
GeneralRecommendation(q_origin, q_search, q_cleaned, media_pref_check, target_model, final_lang, vcache, api_key, api_up) ==
  With(IF Len(q_cleaned) > 0 THEN q_cleaned ELSE q_search, LAMBDA search_q :
    With(FilterMedia(execute_hybrid_search(search_q, target_model, vcache, api_key, api_up),
                     media_pref_check), LAMBDA full_results :
      Outcome("general_recommendation", <<search_q>>, <<>>, FullOrder(full_results),
              NoContentMessage(
                [filter_type |-> media_pref_check, query_raw |-> search_q,
                 detected_lang |-> final_lang, query_search_zh |-> search_q]
                  @@ build_recommendations_response(q_origin, full_results, 0, TOP_K,
                                                    final_lang),
                media_pref_check # None, final_lang, search_q))))

\* chat lines 868-998: the if / elif chain.
Dispatch(route, q_origin, q_search, q_cleaned, media_pref_check, history_list, target_model, final_lang, vcache, api_key, api_up, geo) ==
  CASE route = "nearby_clinic" -> NearbyClinic(q_search, final_lang, geo)
    [] route = "direct_address" -> DirectAddress(q_search, final_lang, geo)
    [] route = "pagination_continue" ->
         PaginationContinue(history_list, target_model, final_lang, vcache, api_key, api_up)
    [] route = "media_preference_only" ->
         MediaPreferenceOnly(q_search, media_pref_check, history_list, target_model,
                             final_lang, vcache, api_key, api_up)
    [] OTHER ->
         GeneralRecommendation(q_origin, q_search, q_cleaned, media_pref_check, target_model,
                               final_lang, vcache, api_key, api_up)

\* What a /chat request does (lines 807-1003): the response, with what the
\* handler derived from the request and what its branch called.
chat(query, session_id, model, history, tcache, vcache, api_key, api_up, geo, tr) ==
  With(Strip(query), LAMBDA q_origin :
  With(IF session_id = None \/ session_id = "" THEN "anonymous" ELSE session_id, LAMBDA sid :
  With(IF model = None \/ model = "" THEN "v3" ELSE model, LAMBDA target_model :
  With(FinalLang(q_origin, history[sid]), LAMBDA final_lang :
  With(IF final_lang # "zh-TW" THEN translate_text(q_origin, "zh-TW", tcache, tr)
       ELSE q_origin, LAMBDA q_search :
  With(detect_media_preference(q_search), LAMBDA media_pref_check :
  With(CleanMediaPreference(q_search), LAMBDA q_cleaned :
  With(Dispatch(RouteOf(q_search, media_pref_check, q_cleaned), q_origin, q_search, q_cleaned,
                media_pref_check, history[sid], target_model, final_lang,
                vcache, api_key, api_up, geo), LAMBDA done :
    [endpoint |-> "chat", session |-> sid, query |-> q_origin, q_search |-> q_search,
     model |-> target_model, final_lang |-> final_lang, route |-> done.route,
     searched |-> done.searched, geocoded |-> done.geocoded, full |-> done.full,
     resp |-> SetKey(done.resp, "used_model", target_model)]))))))))

\* ------------------------------------------------------------ /recommend

\* if any(w in q for w in ["文章"]) ... elif any(w in q for w in ["影片"])
RecommendPreference(q) ==
  IF Contains(q, W_wenzhang) THEN "article"
  ELSE IF Contains(q, W_yingpian) THEN "video"
  ELSE None

\* What a /recommend request does (lines 1046-1064): the search on the stripped
\* query under the default model, the media filter by the bare words 文章 / 影片.
recommend(query, vcache, api_key, api_up) ==
  With(Strip(query), LAMBDA q :
    With(FilterMedia(execute_hybrid_search(q, "v3", vcache, api_key, api_up),
                     RecommendPreference(q)), LAMBDA full_results :
      [endpoint |-> "recommend", session |-> "anonymous", query |-> q, q_search |-> q,
       model |-> "v3", final_lang |-> "zh-TW", route |-> "recommend",
       searched |-> <<q>>, geocoded |-> <<>>, full |-> FullOrder(full_results),
       resp |-> build_recommendations_response(q, full_results, 0, TOP_K, "zh-TW")]))

\* ---------------------------------------------------------------- state

VARIABLES
  HISTORY,            \* session id -> list of {query, response, detected_lang}
  TRANSLATION_CACHE,  \* the translations of queries that translate_text cached
  VECTOR_CACHE,       \* the model keys whose vector matrix init_vector_model loaded
  JINA_API_KEY,       \* whether the embedding API key is set
  jina_up,            \* whether a request to the embedding API succeeds now
  lastTurn,           \* observation: what the last request did and returned
  appended,           \* observation: session id -> the number of entries appended so far
  turns,              \* observation: the number of requests handled
  taxonomy,           \* which keywords.json the globals KEYWORDS_DATA / STOP_WORDS hold
  inflight,           \* thread -> its position in the code it runs, and its locals
  lastCall            \* observation: the last call of a search function, and its result

vars ==
  <<HISTORY, TRANSLATION_CACHE, VECTOR_CACHE, JINA_API_KEY, jina_up, lastTurn, appended, turns,
    taxonomy, inflight, lastCall>>

\* The threads of the model: the worker threads that run the handlers.
Threads == {"t1", "t2"}

\* The session ids of the model: the shared default, and one client's.
SessionIds == {"anonymous", "s1"}

\* What is recorded beside an entry of HISTORY for the properties: the branch that
\* built the response, the full result list it paged over, the model it searched
\* with, whether the embedding API answered, and the entry's rank among the
\* entries appended to its session.  The code stores none of it.
Observed(out, api_up, nth) ==
  [route |-> out.route, endpoint |-> out.endpoint, full |-> out.full, model |-> out.model,
   searched |-> out.searched, api_up |-> api_up, nth |-> nth]

\* Module import: empty history and translation cache; the vector files of v3 and
\* v2-zh are on disk, the API key is set; keywords.json is loaded as it is on disk
\* (its first version), and no request is being handled.
Init ==
  /\ HISTORY = [s \in SessionIds |-> <<>>]
  /\ TRANSLATION_CACHE = {}
  /\ VECTOR_CACHE = {"v3", "v2-zh"}
  /\ JINA_API_KEY = TRUE
  /\ jina_up = TRUE
  /\ lastTurn = [endpoint |-> "import"]
  /\ appended = [s \in SessionIds |-> 0]
  /\ turns = 0
  /\ taxonomy = [KEYWORDS_DATA |-> 1, STOP_WORDS |-> 1]
  /\ inflight = [t \in Threads |-> [pc |-> "idle"]]
  /\ lastCall = [fn |-> "import"]

\* POST /chat with a query of Q, a session id of S and a model of M.  geo (of G) is
\* what the geocoder answers if the request reaches it, tr what the translation
\* service answers if translate_text calls it.
Chat(Q, S, M, G) ==
  \E query \in Q, session_id \in S, model \in M, geo \in G :
    \E tr \in TranslatorOutcomes(Strip(query), "zh-TW") :
      \E out \in {chat(query, session_id, model, HISTORY, TRANSLATION_CACHE, VECTOR_CACHE,
                       JINA_API_KEY, jina_up, geo, tr)} :
        /\ geo = "miss" \/ Len(out.geocoded) > 0
        /\ \/ ~tr.ok
           \/ /\ out.final_lang # "zh-TW"
              /\ TranslateCallsService(out.query, "zh-TW", TRANSLATION_CACHE)
        /\ HISTORY' = [HISTORY EXCEPT ![out.session] =
                         AppendTurn(@, [query |-> out.query, response |-> out.resp,
                                        detected_lang |-> out.final_lang,
                                        observed |-> Observed(out, jina_up,
                                                              appended[out.session] + 1)])]
        /\ TRANSLATION_CACHE' =
             IF out.final_lang # "zh-TW"
             THEN TranslationCacheAfter(out.query, "zh-TW", TRANSLATION_CACHE, tr)
             ELSE TRANSLATION_CACHE
        /\ lastTurn' = out @@ [geo |-> geo, api_up |-> jina_up, prior |-> HISTORY[out.session]]
        /\ appended' = [appended EXCEPT ![out.session] = @ + 1]
        /\ turns' = turns + 1
        /\ UNCHANGED <<VECTOR_CACHE, JINA_API_KEY, jina_up, taxonomy, inflight, lastCall>>

\* POST /recommend with a query of Q: the entry goes to the "anonymous" session,
\* without detected_lang and without the eviction of /chat (lines 1066-1067).
Recommend(Q) ==
  \E query \in Q :
    \E out \in {recommend(query, VECTOR_CACHE, JINA_API_KEY, jina_up)} :
      /\ HISTORY' = [HISTORY EXCEPT !["anonymous"] =
                       Append(@, [query |-> out.query, response |-> out.resp,
                                  observed |-> Observed(out, jina_up,
                                                        appended["anonymous"] + 1)])]
      /\ lastTurn' = out @@ [geo |-> "miss", api_up |-> jina_up, prior |-> HISTORY["anonymous"]]
      /\ appended' = [appended EXCEPT !["anonymous"] = @ + 1]
      /\ turns' = turns + 1
      /\ UNCHANGED <<TRANSLATION_CACHE, VECTOR_CACHE, JINA_API_KEY, jina_up, taxonomy, inflight,
                     lastCall>>

\* The embedding API goes down, or comes back, between two requests.
JinaFlip ==
  /\ jina_up' = ~jina_up
  /\ UNCHANGED <<HISTORY, TRANSLATION_CACHE, VECTOR_CACHE, JINA_API_KEY, lastTurn, appended,
                 turns, taxonomy, inflight, lastCall>>

\* -------------------------------------------------- the recommendation turns

Q_insomnia == W_shimian                                   \* 失眠
Q_next_page == W_xiayiye                                  \* 下一頁
Q_want_articles == W_xiangkan \o W_wenzhang               \* 想看文章
Q_pain == <<"tong">>                                      \* 痛
Q_insomnia_articles == W_shimian \o W_wenzhang            \* 失眠文章

PagingQueries == {Q_insomnia, Q_next_page, Q_want_articles, Q_pain}

RecommendQueries == {Q_insomnia_articles}

\* The number of requests of a conversation.
MaxTurns == 3

\* A /chat turn of the shared session: no session id, either model, no address.
ChatTurn == turns < MaxTurns /\ Chat(PagingQueries, {None}, {"v3", "v2-zh"}, {"miss"})

RecommendTurn == turns < MaxTurns /\ Recommend(RecommendQueries)

Next == ChatTurn \/ RecommendTurn \/ JinaFlip

Spec == Init /\ [][Next]_vars

\* ------------------------------------------------------ the routing turns

Q_clinic_no_address == W_fujin \o <<"you", "mei", "you">> \o W_xinjudian      \* 附近有沒有心據點
Q_clinic_short_address == <<"gong", "guan", "zhan">> \o W_fujin \o W_menzhen  \* 公館站附近門診
Q_clinic_next_page ==
  <<"shi_teach", "da", "lu", "kou">> \o W_fujin \o W_menzhen \o W_xiayiye     \* 師大路口附近門診下一頁
Q_address == <<"tai", "bei", "shi_city", "da", "an", "qu">>                   \* 台北市大安區
Q_next_5 == Chars("next 5")
Q_depression_doctor == W_youyu \o <<"yao", "kan">> \o W_yisheng               \* 憂鬱要看醫生

RoutingQueries ==
  {Q_clinic_no_address, Q_clinic_short_address, Q_clinic_next_page, Q_address, Q_next_page,
   Q_next_5, Q_want_articles, Q_depression_doctor, Q_insomnia}

\* The number of requests of a routed conversation.
MaxRouteTurns == 2

\* A /chat turn of one client's session, whatever the geocoder answers.
RouteTurn == turns < MaxRouteTurns /\ Chat(RoutingQueries, {"s1"}, {"v3"}, GeoOutcomes)

NextRoute == RouteTurn

SpecRoute == Init /\ [][NextRoute]_vars

\* ------------------------------------------------------- the store's turns

\* The number of requests sent to the store: one more than the cap.
MaxStoreTurns == 51

\* A client asks for more in a session of its own (answered by a text).
StoreChatTurn == turns < MaxStoreTurns /\ Chat({Q_next_page}, {"s1"}, {"v3"}, {"miss"})

StoreRecommendTurn == turns < MaxStoreTurns /\ Recommend({Q_pain})

NextStore == StoreChatTurn \/ StoreRecommendTurn

SpecStore == Init /\ [][NextStore]_vars

\* ----------------------------------------------------------- properties

\* The last request was a /chat turn.
ChatAnswered == lastTurn.endpoint = "chat"

\* The newest course_recommendation response of the session before the last turn.
PriorRecommendation == lastTurn.prior[LastRecommendation(lastTurn.prior)].response

\* The last turn was a "show more" turn with a recommendation to continue from.
ContinuedTurn ==
  /\ ChatAnswered
  /\ lastTurn.route = "pagination_continue"
  /\ LastRecommendation(lastTurn.prior) > 0

\* C1: every course_recommendation response of /chat has
\* offset + len(results) <= total, continuation turns after a last page included.
PageWithinTotal ==
  (ChatAnswered /\ lastTurn.resp.type = "course_recommendation")
    => lastTurn.resp.offset + Len(lastTurn.resp.results) <= lastTurn.resp.total

\* C2: a "show more" turn with a prior recommendation searches the query stored in
\* the newest course_recommendation of the session (query_raw, else query) and
\* returns the slice at that response's offset + limit; the k-th consecutive
\* continuation after a general search is at offset 5 * k.
ContinuationPaging ==
  /\ ContinuedTurn =>
       /\ lastTurn.searched = <<StoredQuery(PriorRecommendation)>>
       /\ lastTurn.resp.type = "course_recommendation"
       /\ lastTurn.resp.offset = PriorRecommendation.offset + PriorRecommendation.limit
       /\ Len(lastTurn.resp.results)
            = Len(Page(lastTurn.full, lastTurn.resp.offset, PriorRecommendation.limit))
  /\ \A s \in SessionIds : \A i \in 1..Len(HISTORY[s]) : \A j \in 1..(i - 1) :
       (/\ HISTORY[s][j].observed.route = "general_recommendation"
        /\ \A m \in (j + 1)..i : HISTORY[s][m].observed.route = "pagination_continue")
         => HISTORY[s][i].response.offset = 5 * (i - j)

\* A second consecutive continuation of the search for 失眠 (offset 10), whose own
\* utterance is not what was searched.
SecondContinuation ==
  /\ ContinuedTurn
  /\ lastTurn.searched = <<Q_insomnia>>
  /\ lastTurn.q_search # Q_insomnia
  /\ lastTurn.resp.offset = 10

\* C3: with the vector collaborator as it was, a continuation turn pages over the
\* same ordered result list, of the same total, as the turn that recorded the
\* recommendation it continues, whatever model the request carries and whether
\* /chat or /recommend recorded it.
ContinuationSameResults ==
  (/\ ContinuedTurn
   /\ Len(lastTurn.prior[LastRecommendation(lastTurn.prior)].observed.searched) > 0
   /\ lastTurn.prior[LastRecommendation(lastTurn.prior)].observed.api_up = lastTurn.api_up)
    => /\ lastTurn.full = lastTurn.prior[LastRecommendation(lastTurn.prior)].observed.full
       /\ lastTurn.resp.total = PriorRecommendation.total

\* C4: every session's history holds at most 50 entries, the most recently
\* appended ones in order, after any sequence of /chat and /recommend requests.
HistoryBounded ==
  \A s \in SessionIds :
    /\ Len(HISTORY[s]) <= 50
    /\ \A i \in 1..Len(HISTORY[s]) :
         HISTORY[s][i].observed.nth = appended[s] - Len(HISTORY[s]) + i

\* The curated scenario patterns of the SpecialAdvice rule (keyword co-occurrence):
\* of the scenarios the specification lists, "depression + considering seeing a
\* doctor" (憂鬱 with 醫生).  The code has no such rule.
SpecialAdviceScenario(q) == Contains(q, W_youyu) /\ Contains(q, W_yisheng)

\* The specification's router: the first rule that matches, in its fixed order.
RouterMode(q) ==
  IF Contains(q, W_fujin) /\ AnyIn(q, ClinicKeywords) THEN "nearby_clinic"
  ELSE IF ADDR_HEAD_RE_match(q) THEN "direct_address"
  ELSE IF detect_pagination_intent(q) THEN "pagination_continue"
  ELSE IF detect_media_preference(q) # None /\ Len(CleanMediaPreference(q)) = 0
       THEN "media_preference_only"
  ELSE IF SpecialAdviceScenario(q) THEN "special_advice"
  ELSE "general_recommendation"

\* C5: each /chat turn is handled by the first rule that matches in the order
\* NearbyClinic, DirectAddress, PaginationContinue, MediaPreferenceOnly,
\* SpecialAdvice, GeneralRecommendation, and by that rule only: an address turn
\* answers xin_points and runs no search even when a later rule matches too.
FirstMatchingRule ==
  ChatAnswered =>
    /\ lastTurn.route = RouterMode(lastTurn.q_search)
    /\ lastTurn.route \in {"nearby_clinic", "direct_address"}
         => lastTurn.resp.type = "xin_points" /\ lastTurn.searched = <<>>

\* C6: a query of a SpecialAdvice scenario that none of the four rules before it
\* matches is answered by a response of type advice, and nothing is searched.
SpecialAdviceAnswered ==
  (ChatAnswered /\ RouterMode(lastTurn.q_search) = "special_advice")
    => lastTurn.resp.type = "advice" /\ lastTurn.searched = <<>>

\* The routed query asks for more and matches no address rule.
AsksForMore(q) ==
  /\ detect_pagination_intent(q)
  /\ ~(Contains(q, W_fujin) /\ AnyIn(q, ClinicKeywords))
  /\ ~ADDR_HEAD_RE_match(q)

MediaPreferenceResolved ==
  /\ (/\ ChatAnswered
      /\ lastTurn.route = "media_preference_only"
      /\ LastRecommendation(lastTurn.prior) > 0)
       => /\ lastTurn.searched = <<StoredQuery(PriorRecommendation)>>
          /\ lastTurn.resp.offset = 0
          /\ lastTurn.resp.filter_type = detect_media_preference(lastTurn.q_search)
          /\ \A i \in 1..Len(lastTurn.resp.results) :
               lastTurn.resp.results[i].type = lastTurn.resp.filter_type
  /\ (/\ ChatAnswered
      /\ lastTurn.route = "media_preference_only"
      /\ LastRecommendation(lastTurn.prior) = 0)
       => lastTurn.resp.results = <<>> /\ lastTurn.searched = <<>>
  /\ (/\ ChatAnswered
      /\ lastTurn.route = "pagination_continue"
      /\ \A i \in 1..Len(lastTurn.prior) :
           lastTurn.prior[i].response.type = "course_recommendation"
             => /\ lastTurn.prior[i].observed.route = "media_preference_only"
                /\ lastTurn.prior[i].observed.searched = <<>>)
       => lastTurn.searched = <<>>

\* The address a NearbyClinic turn extracts has fewer than 4 characters.
AddressNotFound ==
  /\ lastTurn.route = "nearby_clinic"
  /\ Len(AddressCandidate(lastTurn.q_search)) < 4

\* C9: on the NearbyClinic and DirectAddress routes, an extracted address of fewer
\* than 4 characters, or an address the geocoder finds nothing for, is answered
\* by xin_points with no points and a message; the geocoder is not called for
\* the short address.
AddressFailuresAnswered ==
  (ChatAnswered /\ lastTurn.route \in {"nearby_clinic", "direct_address"})
    => /\ AddressNotFound
            => /\ lastTurn.resp.type = "xin_points"
               /\ lastTurn.resp.points = <<>>
               /\ "message" \in DOMAIN lastTurn.resp
               /\ lastTurn.geocoded = <<>>
       /\ (~AddressNotFound /\ lastTurn.geo = "miss")
            => /\ lastTurn.resp.type = "xin_points"
               /\ lastTurn.resp.points = <<>>
               /\ "message" \in DOMAIN lastTurn.resp
               /\ Len(lastTurn.geocoded) = 1

\* The three-character address 公館站 was extracted and not sent to the geocoder.
ShortAddressRejected ==
  /\ ChatAnswered
  /\ lastTurn.query = Q_clinic_short_address
  /\ AddressCandidate(lastTurn.q_search) = <<"gong", "guan", "zhan">>
  /\ lastTurn.geocoded = <<>>
  /\ lastTurn.resp.points = <<>>

\* The query handed to the search has no term: no core term after the whole-query
\* fallback, and no other term.
EmptyTermSet(q) ==
  /\ Len(SearchTerms(q, KEYWORDS_DATA, STOP_WORDS).user_core) = 0
  /\ Len(SearchTerms(q, KEYWORDS_DATA, STOP_WORDS).other) = 0

\* C10: a turn whose search query has an empty TermSet answers a
\* course_recommendation with total 0, no results and the suggestion message,
\* whatever the vector collaborator returns for the query.
EmptyTermSetShortCircuits ==
  (/\ lastTurn.endpoint \in {"chat", "recommend"}
   /\ Len(lastTurn.searched) > 0
   /\ EmptyTermSet(lastTurn.searched[1]))
    => /\ lastTurn.resp.type = "course_recommendation"
       /\ lastTurn.resp.total = 0
       /\ lastTurn.resp.results = <<>>
       /\ lastTurn.resp.message.key = "not_found"

\* C13: every course_recommendation response of /chat and /recommend, the
\* zero-result response and the prompts built by hand included, has
\* has_more = (offset + limit < total).
HasMoreMatchesPage ==
  /\ (/\ lastTurn.endpoint \in {"chat", "recommend"}
      /\ lastTurn.resp.type = "course_recommendation")
       => lastTurn.resp.has_more
            = (lastTurn.resp.offset + lastTurn.resp.limit < lastTurn.resp.total)
  /\ \A s \in SessionIds : \A i \in 1..Len(HISTORY[s]) :
       HISTORY[s][i].response.type = "course_recommendation"
         => HISTORY[s][i].response.has_more
              = (HISTORY[s][i].response.offset + HISTORY[s][i].response.limit
                   < HISTORY[s][i].response.total)

\* A first page with a successor, answered after the prompt for a topic that
\* 想看文章 gets in an empty session.
MoreAfterPrompt ==
  /\ ChatAnswered
  /\ lastTurn.resp.type = "course_recommendation"
  /\ lastTurn.resp.has_more
  /\ Len(lastTurn.prior) > 0
  /\ lastTurn.prior[1].observed.route = "media_preference_only"
  /\ lastTurn.prior[1].observed.searched = <<>>
  /\ lastTurn.prior[1].response.total = 0

\* ------------------------------------------------ the calls of the search

Q_headache == <<"tou", "tong">>                            \* 頭痛
Q_recommend == <<"tui", "jian_rec">>                       \* 推薦
Q_stress_how == W_yali \o <<" ", "zen", "me", "ban">>      \* 壓力 怎麼辦
Q_sleep_well == <<"hao", "mian">> \o <<"?">>               \* 好眠?

SearchQueries ==
  {Q_insomnia, Q_insomnia_articles, Q_pain, Q_headache, Q_recommend, Q_stress_how,
   Q_sleep_well, Q_want_articles}

\* What a call execute_hybrid_search(search_query, model_key) worked with and
\* returned: the term lists search_units scored with, the lexical and the vector
\* results, the merged list, and the list as build_recommendations_response
\* reorders it.
SearchCall(search_query, model_key, cache, api_key, api_up) ==
  [fn |-> "execute_hybrid_search", search_query |-> search_query, model_key |-> model_key,
   terms |-> SearchTerms(search_query, KEYWORDS_DATA, STOP_WORDS),
   kw_results |-> search_units(UNITS_CACHE, search_query),
   vec_results |-> search_units_semantic(search_query, EffectiveModel(model_key, cache), 50,
                                         cache, api_key, api_up),
   results |-> execute_hybrid_search(search_query, model_key, cache, api_key, api_up),
   ordered |-> FullOrder(execute_hybrid_search(search_query, model_key, cache, api_key, api_up))]

\* Module import in any environment: each vector file is on disk or not, the API
\* key is set or not (init_vector_model).
InitSearch ==
  /\ HISTORY = [s \in SessionIds |-> <<>>]
  /\ TRANSLATION_CACHE = {}
  /\ VECTOR_CACHE \in SUBSET {"v3", "v2-zh"}
  /\ JINA_API_KEY \in BOOLEAN
  /\ jina_up = TRUE
  /\ lastTurn = [endpoint |-> "import"]
  /\ appended = [s \in SessionIds |-> 0]
  /\ turns = 0
  /\ taxonomy = [KEYWORDS_DATA |-> 1, STOP_WORDS |-> 1]
  /\ inflight = [t \in Threads |-> [pc |-> "idle"]]
  /\ lastCall = [fn |-> "import"]

\* A handler calls execute_hybrid_search with a query and a model key.
HybridSearch ==
  /\ \E search_query \in SearchQueries, model_key \in {"v3", "v2-zh", "v4"} :
       lastCall' = SearchCall(search_query, model_key, VECTOR_CACHE, JINA_API_KEY, jina_up)
  /\ UNCHANGED <<HISTORY, TRANSLATION_CACHE, VECTOR_CACHE, JINA_API_KEY, jina_up, lastTurn,
                 appended, turns, taxonomy, inflight>>

NextSearch == HybridSearch \/ JinaFlip

SpecSearch == InitSearch /\ [][NextSearch]_vars

\* A call of execute_hybrid_search was made.
Searched == lastCall.fn = "execute_hybrid_search"

\* C11: when the vector search gives nothing (no API key, no vector matrix, a
\* failed request, or no result above the floor), execute_hybrid_search returns
\* exactly the results of search_units: all of them, in their order, with their
\* scores.
LexicalOnlyWithoutVectors ==
  (Searched /\ lastCall.vec_results = <<>>) => lastCall.results = lastCall.kw_results

\* C12: no unit with a lexical score above 0 is missing from the full result list
\* of the response, and two such units of one section titled A（上） and A（下）
\* are both in it, side by side, 上 first.
EpisodePairsKept ==
  Searched =>
    /\ \A i \in 1..Len(lastCall.kw_results) :
         \E j \in 1..Len(lastCall.ordered) : lastCall.ordered[j] = lastCall.kw_results[i].id
    /\ \A a, b \in 1..Len(lastCall.kw_results) :
         (/\ BaseKeyOf(lastCall.kw_results[a]) = BaseKeyOf(lastCall.kw_results[b])
          /\ get_episode_tag(lastCall.kw_results[a].title) = "up"
          /\ get_episode_tag(lastCall.kw_results[b].title) = "down")
           => \E j \in 1..(Len(lastCall.ordered) - 1) :
                /\ lastCall.ordered[j] = lastCall.kw_results[a].id
                /\ lastCall.ordered[j + 1] = lastCall.kw_results[b].id

\* The terms of a list, as a set.
TermSet(terms) == {terms[i] : i \in 1..Len(terms)}

\* C17: the three term lists search_units scores with (the core terms after the
\* whole-query fallback, the expanded terms, the other terms) have no term in
\* common, two by two.
TermSetsDisjoint ==
  Searched =>
    /\ TermSet(lastCall.terms.user_core) \cap TermSet(lastCall.terms.expanded) = {}
    /\ TermSet(lastCall.terms.user_core) \cap TermSet(lastCall.terms.other) = {}
    /\ TermSet(lastCall.terms.expanded) \cap TermSet(lastCall.terms.other) = {}

\* C18: no term search_units scores with, the whole-query fallback included,
\* contains a functional word (文章, 影片, 給我, 推薦, ...).
FunctionalWordsNotScored ==
  Searched =>
    \A term \in TermSet(lastCall.terms.user_core) \cup TermSet(lastCall.terms.expanded)
                  \cup TermSet(lastCall.terms.other) :
      ~AnyIn(term, functional_words)

\* ----------------------------------------------------------- the merges

\* The units the merged lists are drawn from: four units of the catalog, as a
\* catalog file lists them when the two parts of the series are not its first
\* entries (失眠筆記, 失眠（上）, 失眠（下）, 放鬆).
MergeCatalog == <<UNITS_CACHE[3], UNITS_CACHE[1], UNITS_CACHE[2], UNITS_CACHE[8]>>

\* The longest result list drawn.
MaxResults == 3

\* The lexical scores (4.0, 17.0) and the similarities (0.30, 0.60) drawn.
LexicalScores == {400, 1700}

Similarities == {30, 60}

\* The lists of up to MaxResults pairs <<index among n units, score>>.
ScoreLists(n_units, scores) ==
  UNION {[1..n -> (1..n_units) \X scores] : n \in 0..MaxResults}

\* A list search_units can return: distinct units, best score first, equal scores
\* in catalog order (a stable sort of the catalog's order).
IsKeywordList(l) ==
  \A i, j \in 1..Len(l) :
    i < j => /\ l[i][1] # l[j][1]
             /\ \/ l[i][2] > l[j][2]
                \/ l[i][2] = l[j][2] /\ l[i][1] < l[j][1]

\* A list search_units_semantic can return: distinct units above the floor, best
\* similarity first.
IsVectorList(l) ==
  \A i, j \in 1..Len(l) : i < j => l[i][1] # l[j][1] /\ l[i][2] > l[j][2]

\* The scored copies of the units of a list.
AsResults(units, l) == [i \in 1..Len(l) |-> Scored(units[l[i][1]], l[i][2], 0)]

\* A thread is in execute_hybrid_search at line 749, the two searches done: any
\* lexical result list and any vector result list of the bounds.
InitMerge ==
  /\ HISTORY = [s \in SessionIds |-> <<>>]
  /\ TRANSLATION_CACHE = {}
  /\ VECTOR_CACHE = {"v3", "v2-zh"}
  /\ JINA_API_KEY = TRUE
  /\ jina_up = TRUE
  /\ lastTurn = [endpoint |-> "import"]
  /\ appended = [s \in SessionIds |-> 0]
  /\ turns = 0
  /\ taxonomy = [KEYWORDS_DATA |-> 1, STOP_WORDS |-> 1]
  /\ \E kw \in {l \in ScoreLists(Len(MergeCatalog), LexicalScores) : IsKeywordList(l)},
        vec \in {l \in ScoreLists(Len(MergeCatalog), Similarities) : IsVectorList(l)} :
       inflight = [t \in Threads |->
                     IF t = "t1"
                     THEN [pc |-> "merge", kw_results |-> AsResults(MergeCatalog, kw),
                           vec_results |-> AsResults(MergeCatalog, vec)]
                     ELSE [pc |-> "idle"]]
  /\ lastCall = [fn |-> "import"]

\* execute_hybrid_search lines 749-775: the merge of the two lists, and the sort.
Merge ==
  \E t \in Threads :
    /\ inflight[t].pc = "merge"
    /\ lastCall' = [fn |-> "merge", kw_results |-> inflight[t].kw_results,
                    vec_results |-> inflight[t].vec_results,
                    results |-> HybridMerge(inflight[t].kw_results, inflight[t].vec_results)]
    /\ inflight' = [inflight EXCEPT ![t] = [pc |-> "idle"]]
    /\ UNCHANGED <<HISTORY, TRANSLATION_CACHE, VECTOR_CACHE, JINA_API_KEY, jina_up, lastTurn,
                   appended, turns, taxonomy>>

NextMerge == Merge

SpecMerge == InitMerge /\ [][NextMerge]_vars

\* A merge was made.
Merged == lastCall.fn = "merge"

\* The base keys of a result list.
KeysOf(results) == {BaseKeyOf(results[i]) : i \in 1..Len(results)}

\* C16: for every base key, a key of both the lexical and the vector results is
\* merged with the lexical score plus similarity * 20, and a key of the vector
\* results only (similarity above 0.25) with similarity * 10, also when several
\* vector results share the key.
MergedScores ==
  Merged =>
    /\ \A k \in KeysOf(lastCall.kw_results) \cup KeysOf(lastCall.vec_results) :
         \E i \in 1..Len(lastCall.results) : BaseKeyOf(lastCall.results[i]) = k
    /\ \A i \in 1..Len(lastCall.results) :
         /\ (/\ BaseKeyOf(lastCall.results[i]) \in KeysOf(lastCall.kw_results)
             /\ BaseKeyOf(lastCall.results[i]) \in KeysOf(lastCall.vec_results))
              => \E a \in 1..Len(lastCall.kw_results), b \in 1..Len(lastCall.vec_results) :
                   /\ BaseKeyOf(lastCall.kw_results[a]) = BaseKeyOf(lastCall.results[i])
                   /\ BaseKeyOf(lastCall.vec_results[b]) = BaseKeyOf(lastCall.results[i])
                   /\ lastCall.results[i]._score
                        = lastCall.kw_results[a]._score + lastCall.vec_results[b]._score * 20
         /\ (/\ BaseKeyOf(lastCall.results[i]) \notin KeysOf(lastCall.kw_results)
             /\ BaseKeyOf(lastCall.results[i]) \in KeysOf(lastCall.vec_results))
              => \E b \in 1..Len(lastCall.vec_results) :
                   /\ BaseKeyOf(lastCall.vec_results[b]) = BaseKeyOf(lastCall.results[i])
                   /\ lastCall.results[i]._score = lastCall.vec_results[b]._score * 10

\* The rank of a unit in the order of insertion the claim describes: the lexical
\* results in their order, then the vector results.
InsertionRank(id) ==
  IF \E a \in 1..Len(lastCall.kw_results) : lastCall.kw_results[a].id = id
  THEN CHOOSE a \in 1..Len(lastCall.kw_results) : lastCall.kw_results[a].id = id
  ELSE Len(lastCall.kw_results)
         + (CHOOSE b \in 1..Len(lastCall.vec_results) : lastCall.vec_results[b].id = id)

\* C20: the list execute_hybrid_search returns is in descending order of score,
\* and results of one score are in insertion order: the lexical results in
\* lexical order, then the vector-only results in vector order.
MergeOrder ==
  Merged =>
    \A i, j \in 1..Len(lastCall.results) :
      i < j => /\ lastCall.results[i]._score >= lastCall.results[j]._score
               /\ lastCall.results[i]._score = lastCall.results[j]._score
                    => InsertionRank(lastCall.results[i].id)
                         < InsertionRank(lastCall.results[j].id)

\* ------------------------------------------------------- the reorderings

\* The units the reordered lists are drawn from: those of MergeCatalog, and two
\* more of the series 睡眠 / 失眠: one without a part tag, one tagged 上篇.
ReorderCatalog ==
  MergeCatalog \o
    << Unit(9, W_shuimian, W_shimian, <<>>, FALSE, <<>>),                               \* 失眠
       Unit(10, W_shuimian, W_shimian \o <<"shang", "pian_part">>, <<>>, TRUE, <<>>) >>  \* 失眠上篇

\* A list of scored results: distinct units, in any order.
IsResultList(l) == \A i, j \in 1..Len(l) : i < j => l[i][1] # l[j][1]

\* A thread enters reorder_episode_pairs with any list of scored results of the
\* bounds.
InitReorder ==
  /\ HISTORY = [s \in SessionIds |-> <<>>]
  /\ TRANSLATION_CACHE = {}
  /\ VECTOR_CACHE = {"v3", "v2-zh"}
  /\ JINA_API_KEY = TRUE
  /\ jina_up = TRUE
  /\ lastTurn = [endpoint |-> "import"]
  /\ appended = [s \in SessionIds |-> 0]
  /\ turns = 0
  /\ taxonomy = [KEYWORDS_DATA |-> 1, STOP_WORDS |-> 1]
  /\ \E l \in {l \in ScoreLists(Len(ReorderCatalog), LexicalScores) : IsResultList(l)} :
       inflight = [t \in Threads |->
                     IF t = "t1"
                     THEN [pc |-> "reorder", results |-> AsResults(ReorderCatalog, l)]
                     ELSE [pc |-> "idle"]]
  /\ lastCall = [fn |-> "import"]

\* reorder_episode_pairs(results)
Reorder ==
  \E t \in Threads :
    /\ inflight[t].pc = "reorder"
    /\ lastCall' = [fn |-> "reorder_episode_pairs", results |-> inflight[t].results,
                    out |-> reorder_episode_pairs(inflight[t].results)]
    /\ inflight' = [inflight EXCEPT ![t] = [pc |-> "idle"]]
    /\ UNCHANGED <<HISTORY, TRANSLATION_CACHE, VECTOR_CACHE, JINA_API_KEY, jina_up, lastTurn,
                   appended, turns, taxonomy>>

NextReorder == Reorder

SpecReorder == InitReorder /\ [][NextReorder]_vars

\* A list was reordered.
Reordered == lastCall.fn = "reorder_episode_pairs"

\* 0 for a part 1 (上) title, 1 for a part 2 (下) title, 2 for a title with no tag.
PartRank(r) ==
  IF AnyIn(Strip(r.title), EpisodeUpTags) THEN 0
  ELSE IF AnyIn(Strip(r.title), EpisodeDownTags) THEN 1
  ELSE 2

\* The highest score among the items of a base key in the input.
GroupBest(key) ==
  CHOOSE m \in {lastCall.results[i]._score : i \in 1..Len(lastCall.results)} :
    /\ \E i \in 1..Len(lastCall.results) :
         BaseKeyOf(lastCall.results[i]) = key /\ lastCall.results[i]._score = m
    /\ \A i \in 1..Len(lastCall.results) :
         BaseKeyOf(lastCall.results[i]) = key => lastCall.results[i]._score <= m

\* The index of the first item of a base key in the input.
GroupFirst(key) ==
  CHOOSE i \in 1..Len(lastCall.results) :
    /\ BaseKeyOf(lastCall.results[i]) = key
    /\ \A j \in 1..(i - 1) : BaseKeyOf(lastCall.results[j]) # key

\* C19: reorder_episode_pairs returns a permutation of its input where the items
\* of one base key are contiguous, part 1 before part 2 before untagged items
\* (equal ranks by descending score), and the groups are by descending best
\* score, equal best scores by the index of the group's first item.
ReorderGroups ==
  Reordered =>
    /\ Len(lastCall.out) = Len(lastCall.results)
    /\ \A i \in 1..Len(lastCall.results) :
         \E j \in 1..Len(lastCall.out) : lastCall.out[j] = lastCall.results[i]
    /\ \A i, j \in 1..Len(lastCall.out) :
         i < j =>
           IF BaseKeyOf(lastCall.out[i]) = BaseKeyOf(lastCall.out[j])
           THEN /\ \A m \in i..j : BaseKeyOf(lastCall.out[m]) = BaseKeyOf(lastCall.out[i])
                /\ \/ PartRank(lastCall.out[i]) < PartRank(lastCall.out[j])
                   \/ /\ PartRank(lastCall.out[i]) = PartRank(lastCall.out[j])
                      /\ lastCall.out[i]._score >= lastCall.out[j]._score
           ELSE \/ GroupBest(BaseKeyOf(lastCall.out[i])) > GroupBest(BaseKeyOf(lastCall.out[j]))
                \/ /\ GroupBest(BaseKeyOf(lastCall.out[i]))
                        = GroupBest(BaseKeyOf(lastCall.out[j]))
                   /\ GroupFirst(BaseKeyOf(lastCall.out[i]))
                        < GroupFirst(BaseKeyOf(lastCall.out[j]))

\* 失眠（下） 4.0, 失眠筆記 17.0, 失眠（上） 4.0 came in, and 失眠（上） went out
\* right before 失眠（下）, after 失眠筆記.
PairBroughtTogether ==
  /\ Reordered
  /\ Len(lastCall.results) = 3
  /\ lastCall.results[1].id = 2 /\ lastCall.results[2].id = 3 /\ lastCall.results[3].id = 1
  /\ lastCall.results[2]._score = 1700
  /\ lastCall.out[1].id = 3 /\ lastCall.out[2].id = 1 /\ lastCall.out[3].id = 2

\* ------------------------------------------- the concurrent /chat requests

\* chat is a plain def: the server runs each request in a worker thread, and the
\* threads interleave between two operations on HISTORY and its lists (each
\* dict / list method call is one atomic step of the interpreter).  A thread's
\* pc names the line it is about to run.

\* The number of /chat requests sent: two more than the cap.
MaxRequests == 52

\* The number of those sent without a session id (to "anonymous").
MaxAnonymousRequests == 2

\* The requests sent so far without a session id: those that appended, and those
\* in flight that have not yet.
AnonymousRequests(counts, threads) ==
  counts["anonymous"]
    + Cardinality({u \in DOMAIN threads :
                     /\ threads[u].pc \in {"chat:817", "chat:1012", "chat:1013"}
                     /\ threads[u].sid = "anonymous"})

\* Whether HISTORY has the key: a list that was appended to, or one a thread
\* created at line 1012 and has not yet appended to.
SessionSeen(history, threads, sid) ==
  \/ Len(history[sid]) > 0
  \/ \E u \in DOMAIN threads : threads[u].pc = "chat:1013" /\ threads[u].sid = sid

\* The list that is appended to and stored back is the one line 816 read: a new
\* list when the session was not in HISTORY then.
ListAt816(live_list, unseen) == IF unseen THEN <<>> ELSE live_list

\* history_list = HISTORY.setdefault(session_id, []): the session's list in
\* HISTORY, created if absent, whatever line 816 read.
ListAt1012(live_list, unseen) == live_list

\* Lines 812-816: the request is read, history_list = HISTORY.get(session_id, []).
ChatBegin(t) ==
  /\ inflight[t].pc = "idle"
  /\ turns < MaxRequests
  /\ \E session_id \in {None, "s1"} :
       /\ session_id = None => AnonymousRequests(appended, inflight) < MaxAnonymousRequests
       /\ inflight' = [inflight EXCEPT ![t] =
            [pc |-> "chat:817", query |-> Q_next_page, session_id |-> session_id,
             sid |-> IF session_id = None THEN "anonymous" ELSE session_id,
             unseen |-> ~SessionSeen(HISTORY, inflight,
                                     IF session_id = None THEN "anonymous" ELSE session_id)]]
  /\ turns' = turns + 1
  /\ UNCHANGED <<HISTORY, TRANSLATION_CACHE, VECTOR_CACHE, JINA_API_KEY, jina_up, lastTurn,
                 appended, taxonomy, lastCall>>

\* Lines 817-1007: the response is built from the list of line 816 as it is now
\* (the live list of the session, or the empty list of an unseen session).
ChatRespond(t) ==
  /\ inflight[t].pc = "chat:817"
  /\ \E tr \in TranslatorOutcomes(Strip(inflight[t].query), "zh-TW") :
       \E out \in {chat(inflight[t].query, inflight[t].session_id, "v3",
                        [HISTORY EXCEPT ![inflight[t].sid] =
                           IF inflight[t].unseen THEN <<>> ELSE @],
                        TRANSLATION_CACHE, VECTOR_CACHE, JINA_API_KEY, jina_up, "miss", tr)} :
         /\ \/ ~tr.ok
            \/ /\ out.final_lang # "zh-TW"
               /\ TranslateCallsService(out.query, "zh-TW", TRANSLATION_CACHE)
         /\ TRANSLATION_CACHE' =
              IF out.final_lang # "zh-TW"
              THEN TranslationCacheAfter(out.query, "zh-TW", TRANSLATION_CACHE, tr)
              ELSE TRANSLATION_CACHE
         /\ inflight' = [inflight EXCEPT ![t] =
              [pc |-> "chat:1012", query |-> out.query, session_id |-> inflight[t].session_id,
               sid |-> inflight[t].sid, unseen |-> inflight[t].unseen, out |-> out]]
  /\ UNCHANGED <<HISTORY, VECTOR_CACHE, JINA_API_KEY, jina_up, lastTurn, appended, turns,
                 taxonomy, lastCall>>

\* Line 1012: HISTORY.setdefault(session_id, []); the key exists from here on.
ChatSetDefault(t) ==
  /\ inflight[t].pc = "chat:1012"
  /\ inflight' = [inflight EXCEPT ![t].pc = "chat:1013"]
  /\ UNCHANGED <<HISTORY, TRANSLATION_CACHE, VECTOR_CACHE, JINA_API_KEY, jina_up, lastTurn,
                 appended, turns, taxonomy, lastCall>>

\* Lines 1013-1017: history_list.append({...}).
ChatAppend(t) ==
  /\ inflight[t].pc = "chat:1013"
  /\ HISTORY' = [HISTORY EXCEPT ![inflight[t].sid] =
       Append(ListAt1012(@, inflight[t].unseen),
              [query |-> inflight[t].out.query, response |-> inflight[t].out.resp,
               detected_lang |-> inflight[t].out.final_lang,
               observed |-> Observed(inflight[t].out, jina_up, appended[inflight[t].sid] + 1)
                              @@ [session |-> inflight[t].sid]])]
  /\ appended' = [appended EXCEPT ![inflight[t].sid] = @ + 1]
  /\ inflight' = [inflight EXCEPT ![t] =
       [pc |-> "chat:1018", sid |-> inflight[t].sid, unseen |-> inflight[t].unseen]]
  /\ UNCHANGED <<TRANSLATION_CACHE, VECTOR_CACHE, JINA_API_KEY, jina_up, lastTurn, turns,
                 taxonomy, lastCall>>

\* Line 1018, the test: if len(history_list) > 50; else the handler returns.
ChatCheckLen(t) ==
  /\ inflight[t].pc = "chat:1018"
  /\ inflight' = [inflight EXCEPT ![t] =
       IF Len(HISTORY[inflight[t].sid]) > HISTORY_CAP
       THEN [pc |-> "chat:1018:pop", sid |-> inflight[t].sid, unseen |-> inflight[t].unseen]
       ELSE [pc |-> "idle"]]
  /\ UNCHANGED <<HISTORY, TRANSLATION_CACHE, VECTOR_CACHE, JINA_API_KEY, jina_up, lastTurn,
                 appended, turns, taxonomy, lastCall>>

\* Line 1018, the eviction: history_list.pop(0); the handler returns.
ChatPop(t) ==
  /\ inflight[t].pc = "chat:1018:pop"
  /\ HISTORY' = [HISTORY EXCEPT ![inflight[t].sid] = Tail(@)]
  /\ inflight' = [inflight EXCEPT ![t] = [pc |-> "idle"]]
  /\ UNCHANGED <<TRANSLATION_CACHE, VECTOR_CACHE, JINA_API_KEY, jina_up, lastTurn, appended,
                 turns, taxonomy, lastCall>>

NextConcurrent ==
  \E t \in Threads :
    \/ ChatBegin(t)
    \/ ChatRespond(t)
    \/ ChatSetDefault(t)
    \/ ChatAppend(t)
    \/ ChatCheckLen(t)
    \/ ChatPop(t)

SpecConcurrent == Init /\ [][NextConcurrent]_vars

\* The requests that were begun and have not yet appended.
NotYetAppended == {t \in Threads : inflight[t].pc \in {"chat:817", "chat:1012", "chat:1013"}}

\* C14: however the concurrently handled /chat requests interleave, each request
\* appends exactly one entry, to the history of its own session id and to no
\* other: a history holds entries of its own session only, it is the unbroken
\* run of the session's latest appends (none is missing short of the cap, also
\* when two first requests of an unseen session overlap), the appends counted
\* over all sessions are the requests that reached line 1013, and once every
\* request has completed no history has more than 50 entries.
ConcurrentAppendsKept ==
  /\ \A s \in SessionIds :
       /\ \A i \in 1..Len(HISTORY[s]) : HISTORY[s][i].observed.session = s
       /\ \A i \in 1..Len(HISTORY[s]) :
            HISTORY[s][i].observed.nth = appended[s] - Len(HISTORY[s]) + i
       /\ \/ Len(HISTORY[s]) = appended[s]
          \/ /\ appended[s] > HISTORY_CAP
             /\ Len(HISTORY[s]) > HISTORY_CAP - Cardinality(Threads)
  /\ appended["s1"] + appended["anonymous"] + Cardinality(NotYetAppended) = turns
  /\ (\A t \in Threads : inflight[t].pc = "idle") =>
       \A s \in SessionIds : Len(HISTORY[s]) <= HISTORY_CAP

\* Two first requests of a session that was not in HISTORY overlapped, and both
\* entries are in its history.
BothFirstRequestsKept ==
  /\ \A t \in Threads :
       inflight[t].pc = "chat:1018" /\ inflight[t].sid = "s1" /\ inflight[t].unseen
  /\ Len(HISTORY["s1"]) = 2

\* ---------------------------------------------------- the taxonomy reload

\* A later keywords.json: the category "stress" is gone, its keyword 焦慮 is under
\* the new category "mood", and 壓力 is a stop word.
KEYWORDS_DATA_2 ==
  << [category |-> "sleep", kws |-> <<W_shimian, W_shuibuzhao, W_shuimian>>],   \* 失眠 睡不著 睡眠
     [category |-> "mood", kws |-> <<W_jiaolv>>] >>                             \* 焦慮

STOP_WORDS_2 == << <<"zen", "me", "ban">>, <<"ke", "yi">>, W_yali >>    \* 怎麼辦 可以 壓力

FileVersions == {1, 2}

\* data = json.load(f) of the keywords.json of version v.
KeywordsFile(v) ==
  IF v = 1
  THEN [mental_keywords |-> KEYWORDS_DATA, stop_words |-> STOP_WORDS]
  ELSE [mental_keywords |-> KEYWORDS_DATA_2, stop_words |-> STOP_WORDS_2]

\* found_categories after the first loop of normalize_query: the categories of
\* data with a keyword in q (in file order; see ExpandedTerms).
FoundCategories(q, data) ==
  SelectSeq([i \in 1..Len(data) |->
               IF Len(KeywordsIn(q, data[i].kws)) > 0 THEN data[i].category ELSE None],
            LAMBDA c : c # None)

\* cat in KEYWORDS_DATA
HasCategory(data, cat) == \E i \in 1..Len(data) : data[i].category = cat

\* KEYWORDS_DATA[cat]
CategoryKws(data, cat) == data[CHOOSE i \in 1..Len(data) : data[i].category = cat].kws

NormalizeQueries == {Q_stress_how, Q_insomnia, Q_headache}

\* Lines 136-138: keywords.json is opened and parsed, as it is on disk now.
LoadOpen(t) ==
  /\ inflight[t].pc = "idle"
  /\ \E v \in FileVersions :
       inflight' = [inflight EXCEPT ![t] = [pc |-> "load_keywords_from_json:139", data |-> v]]
  /\ UNCHANGED <<HISTORY, TRANSLATION_CACHE, VECTOR_CACHE, JINA_API_KEY, jina_up, lastTurn,
                 appended, turns, taxonomy, lastCall>>

\* Line 139: KEYWORDS_DATA = data.get("mental_keywords", {}).
LoadKeywords(t) ==
  /\ inflight[t].pc = "load_keywords_from_json:139"
  /\ taxonomy' = [taxonomy EXCEPT !.KEYWORDS_DATA = inflight[t].data]
  /\ inflight' = [inflight EXCEPT ![t].pc = "load_keywords_from_json:144"]
  /\ UNCHANGED <<HISTORY, TRANSLATION_CACHE, VECTOR_CACHE, JINA_API_KEY, jina_up, lastTurn,
                 appended, turns, lastCall>>

\* Lines 140-144: MENTAL_KEYWORDS is rebuilt (no request reads it), then
\* STOP_WORDS = data.get("stop_words", []).
LoadStopWords(t) ==
  /\ inflight[t].pc = "load_keywords_from_json:144"
  /\ taxonomy' = [taxonomy EXCEPT !.STOP_WORDS = inflight[t].data]
  /\ inflight' = [inflight EXCEPT ![t] = [pc |-> "idle"]]
  /\ UNCHANGED <<HISTORY, TRANSLATION_CACHE, VECTOR_CACHE, JINA_API_KEY, jina_up, lastTurn,
                 appended, turns, lastCall>>

\* Lines 289-295: q = q.strip().lower(), not empty.
NormalizeBegin(t) ==
  /\ inflight[t].pc = "idle"
  /\ \E query \in NormalizeQueries :
       inflight' = [inflight EXCEPT ![t] =
         [pc |-> "normalize_query:296", q |-> Lower(Strip(query)),
          seen |-> [KEYWORDS_DATA |-> {}, STOP_WORDS |-> {}]]]
  /\ UNCHANGED <<HISTORY, TRANSLATION_CACHE, VECTOR_CACHE, JINA_API_KEY, jina_up, lastTurn,
                 appended, turns, taxonomy, lastCall>>

\* Lines 296-300: the first loop, over the items of the KEYWORDS_DATA read at line 296.
NormalizeCore(t) ==
  /\ inflight[t].pc = "normalize_query:296"
  /\ \E data \in {KeywordsFile(taxonomy.KEYWORDS_DATA).mental_keywords} :
       inflight' = [inflight EXCEPT ![t] =
         [pc |-> "normalize_query:302", q |-> inflight[t].q,
          seen |-> [inflight[t].seen EXCEPT !.KEYWORDS_DATA = @ \cup {taxonomy.KEYWORDS_DATA}],
          user_input_core |-> CoreTerms(inflight[t].q, data),
          found_categories |-> FoundCategories(inflight[t].q, data),
          category_expanded |-> <<>>]]
  /\ UNCHANGED <<HISTORY, TRANSLATION_CACHE, VECTOR_CACHE, JINA_API_KEY, jina_up, lastTurn,
                 appended, turns, taxonomy, lastCall>>

\* Lines 301-304, one pass of the second loop: group_kws = KEYWORDS_DATA[cat] reads
\* the global again; a category the global no longer has raises KeyError.
NormalizeExpand(t) ==
  /\ inflight[t].pc = "normalize_query:302"
  /\ Len(inflight[t].found_categories) > 0
  /\ \E data \in {KeywordsFile(taxonomy.KEYWORDS_DATA).mental_keywords} :
       IF HasCategory(data, inflight[t].found_categories[1])
       THEN /\ inflight' = [inflight EXCEPT ![t] =
                 [pc |-> "normalize_query:302", q |-> inflight[t].q,
                  seen |-> [inflight[t].seen EXCEPT
                              !.KEYWORDS_DATA = @ \cup {taxonomy.KEYWORDS_DATA}],
                  user_input_core |-> inflight[t].user_input_core,
                  found_categories |-> Tail(inflight[t].found_categories),
                  category_expanded |->
                    AppendAllNew(inflight[t].category_expanded,
                                 SelectSeq(CategoryKws(data, inflight[t].found_categories[1]),
                                           LAMBDA kw : ~InList(kw, inflight[t].user_input_core)))]]
            /\ UNCHANGED lastCall
       ELSE /\ inflight' = [inflight EXCEPT ![t] = [pc |-> "idle"]]
            /\ lastCall' =
                 [fn |-> "normalize_query", q |-> inflight[t].q, raised |-> "KeyError",
                  seen |-> [inflight[t].seen EXCEPT
                              !.KEYWORDS_DATA = @ \cup {taxonomy.KEYWORDS_DATA}]]
  /\ UNCHANGED <<HISTORY, TRANSLATION_CACHE, VECTOR_CACHE, JINA_API_KEY, jina_up, lastTurn,
                 appended, turns, taxonomy>>

\* Lines 305-308: the core and the functional words are blanked, the rest is split.
NormalizeSplit(t) ==
  /\ inflight[t].pc = "normalize_query:302"
  /\ Len(inflight[t].found_categories) = 0
  /\ inflight' = [inflight EXCEPT ![t] =
       [pc |-> "normalize_query:310", q |-> inflight[t].q, seen |-> inflight[t].seen,
        user_input_core |-> inflight[t].user_input_core,
        category_expanded |-> inflight[t].category_expanded,
        parts |-> ReSplit(ReplaceAll(ReplaceAll(inflight[t].q, inflight[t].user_input_core,
                                                <<" ">>),
                                     functional_words, <<" ">>),
                          TermDelimiters),
        other_terms |-> <<>>]]
  /\ UNCHANGED <<HISTORY, TRANSLATION_CACHE, VECTOR_CACHE, JINA_API_KEY, jina_up, lastTurn,
                 appended, turns, taxonomy, lastCall>>

\* Lines 309-311, one pass of the last loop: a part of two characters or more is
\* tested against the STOP_WORDS that the global holds now.
NormalizeOther(t) ==
  /\ inflight[t].pc = "normalize_query:310"
  /\ Len(inflight[t].parts) > 0
  /\ \E stop \in {KeywordsFile(taxonomy.STOP_WORDS).stop_words} :
       inflight' = [inflight EXCEPT ![t] =
         [inflight[t] EXCEPT
            !.parts = Tail(@),
            !.seen = IF Len(inflight[t].parts[1]) >= 2
                     THEN [@ EXCEPT !.STOP_WORDS = @ \cup {taxonomy.STOP_WORDS}]
                     ELSE @,
            !.other_terms = IF Len(inflight[t].parts[1]) >= 2 /\ ~InList(inflight[t].parts[1], stop)
                            THEN AppendNew(@, inflight[t].parts[1])
                            ELSE @]]
  /\ UNCHANGED <<HISTORY, TRANSLATION_CACHE, VECTOR_CACHE, JINA_API_KEY, jina_up, lastTurn,
                 appended, turns, taxonomy, lastCall>>

\* Line 312: return user_input_core, category_expanded, other_terms.
NormalizeReturn(t) ==
  /\ inflight[t].pc = "normalize_query:310"
  /\ Len(inflight[t].parts) = 0
  /\ lastCall' =
       [fn |-> "normalize_query", q |-> inflight[t].q, raised |-> None,
        seen |-> inflight[t].seen,
        terms |-> [user_core |-> inflight[t].user_input_core,
                   expanded |-> inflight[t].category_expanded,
                   other |-> inflight[t].other_terms]]
  /\ inflight' = [inflight EXCEPT ![t] = [pc |-> "idle"]]
  /\ UNCHANGED <<HISTORY, TRANSLATION_CACHE, VECTOR_CACHE, JINA_API_KEY, jina_up, lastTurn,
                 appended, turns, taxonomy>>

NextReload ==
  \E t \in Threads :
    \/ LoadOpen(t)
    \/ LoadKeywords(t)
    \/ LoadStopWords(t)
    \/ NormalizeBegin(t)
    \/ NormalizeCore(t)
    \/ NormalizeExpand(t)
    \/ NormalizeSplit(t)
    \/ NormalizeOther(t)
    \/ NormalizeReturn(t)

SpecReload == Init /\ [][NextReload]_vars

\* C15: a reload that runs while a query is normalized is atomic for its reader:
\* every normalization that has returned or raised read one taxonomy only, the
\* category-to-keywords map and the stop-word list of the same keywords.json.
ReloadAtomicForReaders ==
  lastCall.fn = "normalize_query" =>
    \E v \in FileVersions :
      /\ lastCall.seen.KEYWORDS_DATA \subseteq {v}
      /\ lastCall.seen.STOP_WORDS \subseteq {v}

====
